---------------------------- MODULE Spec2Model ----------------------------
(***************************************************************************)
(* A model of the workflow-builder service (FastAPI + SQLAlchemy + three   *)
(* remote clients).  One module, several specifications: each component    *)
(* has its own variables, its own Init and its own next-state relation;    *)
(* a specification leaves the other components' variables at their         *)
(* initial values.                                                         *)
(*                                                                         *)
(*   SpecFilter  QdrantService.filter_by_similarity_threshold              *)
(*   SpecEmbed   EmbeddingService.generate_embedding                       *)
(*   SpecGen     ClaudeService.generate_workflow                           *)
(*   SpecSearch  QdrantService.search_tools                                *)
(*   SpecSvc     ConversationService, called through one session           *)
(*   SpecRoutes  POST /api/workflow/create and /edit, requests overlapping *)
(*   SpecSvcAll  the same with update_summary                              *)
(*   SpecApi     the four endpoints, one request at a time                 *)
(*   SpecSum     ConversationService: the summarization trigger            *)
(*   SpecCfg     config.py: load_settings and get_settings                 *)
(*   SpecHealth  GET /health                                               *)
(*   SpecValid   utils/validators.py: validate_workflow_structure          *)
(*   SpecEmbedClient  generate_embedding or generate_batch_embeddings      *)
(*   SpecCycle   utils/validators.py: detect_workflow_cycles               *)
(*   SpecGetDb   models/base.py: uses of the context manager get_db        *)
(*   SpecIngest  scripts/load_tools_to_qdrant.py: process_tools            *)
(*                                                                         *)
(* Similarity scores are modelled in hundredths (0.82 is 82), so that the  *)
(* comparisons of the code are exact integer comparisons.                  *)
(***************************************************************************)
EXTENDS Integers, Sequences, FiniteSets, TLC

VARIABLES
    fResults,   \* filter: the `results` argument (ranked search results)
    fCalled,    \* filter: TRUE once filter_by_similarity_threshold returned
    fOut,       \* filter: the dict it returned
    eText,      \* embed: the `text` argument
    ePc,        \* embed: "start" | "loop" | "returned" | "raised"
    eAttempt,   \* embed: the loop variable `attempt`
    eTrace,     \* embed: provider calls and sleeps, in the order they happened
    eResult,    \* embed: the returned vector
    eError,     \* embed: the raised exception
    gQuery,     \* generate: the user_query argument
    gHistory,   \* generate: the conversation_history argument
    gMessages,  \* generate: the local `messages` list
    gPc,        \* generate: "start" | "loop" | "returned" | "raised"
    gAttempt,   \* generate: the loop variable `attempt`
    gCalls,     \* generate: each _call_bedrock: the messages sent, what came back
    gResult,    \* generate: the returned workflow document
    gError,     \* generate: the raised BedrockException
    sEmbedding, \* search: the query_embedding argument (its length)
    sTopK,      \* search: the top_k argument (0 stands for None)
    sPc,        \* search: "start" | "loop" | "returned" | "raised"
    sAttempt,   \* search: the loop variable `attempt`
    sTrace,     \* search: index queries and sleeps, in the order they happened
    sResult,    \* search: the returned parsed_results
    sError,     \* search: the raised exception
    dbConvs,    \* store: the rows of table conversations
    dbMsgs,     \* store: the rows of table messages, in insertion order
    dbWfs,      \* store: the rows of table workflow_states
    dbClock,    \* store: the value datetime.utcnow() returns next
    svcLast,    \* service: the last ConversationService call and what it returned
    hOps,       \* history: number of service calls made
    hSaveCount, \* history: per conversation id, save_workflow calls that returned
    hLastSaved, \* history: per conversation id, the document last passed to save_workflow
    hDeleted,   \* history: conversation ids for which delete_conversation returned True
    hSince,     \* history: per conversation id, whether update_summary ran and the messages saved since
    req,        \* routes: per request slot, the handler's local state
    hStarted,   \* history: number of requests received
    hSaves,     \* history: per conversation id, the documents save_workflow committed
    environ,    \* config: the three critical variables as the environment / .env gives them
    settings,   \* config: the module global `settings`
    cfgLast,    \* config: the last load_settings / get_settings call and how it ended
    hcPc,           \* health: "idle" | "qdrant" | "database" | "embedding" | "respond" | "done"
    services_status,\* health: the local dict services_status
    overall_healthy,\* health: the local overall_healthy
    hcResponse,     \* health: the response sent
    hcChecks,       \* history: number of GET /health requests received
    vWorkflow,      \* validators: the `workflow` argument
    vResult,        \* validators: what validate_workflow_structure returned or raised
    bTexts,         \* batch: the `texts` argument
    bPc,            \* batch: "idle" | "start" | "loop" | "returned" | "raised"
    bI,             \* batch: the loop variable `i`, the offset of the chunk
    bAttempt,       \* batch: the loop variable `attempt`
    all_embeddings, \* batch: the local list of that name
    bTrace,         \* batch: provider calls and sleeps, in the order they happened
    bResult,        \* batch: the returned list
    bError,         \* batch: the raised exception
    cyWorkflow,     \* cycles: the `workflow` argument
    cyResult,       \* cycles: what detect_workflow_cycles returned or raised
    gdPc,           \* get_db: "idle" | "block" | "commit" | "rollback" | "close" | "done"
    gdSession,      \* get_db: "none" | "open" | "closed"
    gdBlock,        \* get_db: how the with-block ended
    gdTrace,        \* get_db: the Session methods called in this use, in order
    gdRaised,       \* get_db: the exception that leaves the context manager
    gdLedger,       \* history: how the finished uses ended
    igCatalog,      \* ingestion: the `tools` argument of process_tools
    igPc,           \* ingestion: "idle" | "loop" | "flush" | "done"
    igNext,         \* ingestion: position of the next operation of the catalog
    batch_texts,    \* ingestion: the local lists batch_texts / batch_metadata
    processed_count, \* ingestion: self.processed_count
    failed_count,   \* ingestion: self.failed_count
    igPoints,       \* ingestion: the points in the index
    igBatches       \* history: the batches handed to _process_batch

filterVars == <<fResults, fCalled, fOut>>
embedVars == <<eText, ePc, eAttempt, eTrace, eResult, eError>>
genVars == <<gQuery, gHistory, gMessages, gPc, gAttempt, gCalls, gResult, gError>>
searchVars == <<sEmbedding, sTopK, sPc, sAttempt, sTrace, sResult, sError>>
dbVars == <<dbConvs, dbMsgs, dbWfs, dbClock>>
svcVars == <<svcLast, hOps, hSaveCount, hLastSaved, hDeleted, hSince>>
routeVars == <<req, hStarted, hSaves>>
cfgVars == <<environ, settings, cfgLast>>
healthVars == <<hcPc, services_status, overall_healthy, hcResponse, hcChecks>>
validVars == <<vWorkflow, vResult>>
batchVars == <<bTexts, bPc, bI, bAttempt, all_embeddings, bTrace, bResult, bError>>
cycleVars == <<cyWorkflow, cyResult>>
getDbVars == <<gdPc, gdSession, gdBlock, gdTrace, gdRaised, gdLedger>>
ingestVars == <<igCatalog, igPc, igNext, batch_texts, processed_count,
                failed_count, igPoints, igBatches>>
lateVars == <<cycleVars, getDbVars, ingestVars>>
utilVars == <<cfgVars, healthVars, validVars, batchVars, lateVars>>

vars == <<filterVars, embedVars, genVars, searchVars, dbVars, svcVars, routeVars, utilVars>>

Min(a, b) == IF a < b THEN a ELSE b

(***************************************************************************)
(* Settings (config.py), scores in hundredths.                             *)
(***************************************************************************)
similarity_threshold_high == 70
similarity_threshold_low == 50
ambiguity_threshold == 15

(***************************************************************************)
(* Bounds of the filter inputs.                                            *)
(***************************************************************************)
MaxResults == 3

ScoreValues == {30, 49, 50, 69, 70, 79, 81, 82}
ToolSlugs == {"slack", "discord", "gmail"}

\* A search-result record, reduced to the two fields the classification reads.
SearchResult == [score : ScoreValues, tool_slug : ToolSlugs]

\* Ranked result lists as the index returns them: descending by score.
IsRanked(rs) == \A i \in 1..(Len(rs) - 1) : rs[i].score >= rs[i + 1].score

RankedResults ==
    {rs \in UNION {[1..n -> SearchResult] : n \in 0..MaxResults} : IsRanked(rs)}

MsgNoTools == "No tools found matching your request."
MsgNoToolsCategories ==
    "No tools found matching your request. Available categories: email, communication, storage, productivity"

(***************************************************************************)
(* QdrantService.filter_by_similarity_threshold.  The returned dict is a   *)
(* record; a key the code does not set is not in its DOMAIN.               *)
(***************************************************************************)
Mut_filter_strict_high(results) ==
    IF Len(results) = 0
    THEN [status |-> "no_match", results |-> <<>>, message |-> MsgNoTools]
    ELSE LET top_score == results[1].score IN
         IF top_score < similarity_threshold_low
         THEN [status |-> "no_match", results |-> <<>>,
               message |-> MsgNoToolsCategories]
         ELSE [status |-> "confident",
               results |-> results,
               confidence_level |->
                   IF top_score > similarity_threshold_high
                   THEN "high" ELSE "medium",
               top_score |-> top_score]

Mut_filter_low_inclusive(results) ==
    IF Len(results) = 0
    THEN [status |-> "no_match", results |-> <<>>, message |-> MsgNoTools]
    ELSE LET top_score == results[1].score IN
         IF top_score <= similarity_threshold_low
         THEN [status |-> "no_match", results |-> <<>>,
               message |-> MsgNoToolsCategories]
         ELSE [status |-> "confident",
               results |-> results,
               confidence_level |->
                   IF top_score >= similarity_threshold_high
                   THEN "high" ELSE "medium",
               top_score |-> top_score]

filter_by_similarity_threshold(results) ==
    IF Len(results) = 0
    THEN [status |-> "no_match", results |-> <<>>, message |-> MsgNoTools]
    ELSE LET top_score == results[1].score IN
         IF top_score < similarity_threshold_low
         THEN [status |-> "no_match", results |-> <<>>,
               message |-> MsgNoToolsCategories]
         ELSE [status |-> "confident",
               results |-> results,
               confidence_level |->
                   IF top_score >= similarity_threshold_high
                   THEN "high" ELSE "medium",
               top_score |-> top_score]

FilterIdle ==
    /\ fResults = <<>>
    /\ fCalled = FALSE
    /\ fOut = [status |-> "none"]

InitFilter ==
    /\ fResults \in RankedResults
    /\ fCalled = FALSE
    /\ fOut = [status |-> "none"]

\* One call of filter_by_similarity_threshold on the supplied list.
FilterCall ==
    /\ ~fCalled
    /\ fOut' = filter_by_similarity_threshold(fResults)
    /\ fCalled' = TRUE
    /\ UNCHANGED fResults

(***************************************************************************)
(* EmbeddingService.generate_embedding.                                    *)
(*                                                                         *)
(* A text is modelled by what the validation reads: its length and whether *)
(* it is empty or whitespace-only.  A vector is modelled by its dimension  *)
(* and a tag telling vectors apart.  A provider response either raises or  *)
(* carries a list of vectors.                                              *)
(***************************************************************************)
embedding_dimension == 1024
embed_max_retries == 3
base_retry_delay == 1
max_text_length == 8000

Texts ==
    {[len |-> 0, blank |-> TRUE],
     [len |-> 4, blank |-> TRUE],
     [len |-> 12, blank |-> FALSE],
     [len |-> 8000, blank |-> FALSE],
     [len |-> 8001, blank |-> FALSE]}

Vector(d, t) == [dim |-> d, tag |-> t]

ProviderResponses ==
    {[raised |-> TRUE, embeddings |-> <<>>],
     [raised |-> FALSE, embeddings |-> <<>>],
     [raised |-> FALSE, embeddings |-> <<Vector(512, "short")>>],
     [raised |-> FALSE, embeddings |-> <<Vector(1024, "v1")>>],
     [raised |-> FALSE, embeddings |-> <<Vector(1024, "v2"), Vector(512, "x")>>]}

RECURSIVE Pow2(_)
Pow2(n) == IF n = 0 THEN 1 ELSE 2 * Pow2(n - 1)

\* `not text or not text.strip()` and `len(text) > 8000`
text_invalid(text) == text.len = 0 \/ text.blank \/ text.len > max_text_length

\* The try-block's checks of one provider response: TRUE when it yields a vector.
embed_response_ok(resp) ==
    /\ ~resp.raised
    /\ Len(resp.embeddings) # 0
    /\ resp.embeddings[1].dim = embedding_dimension

\* wait_time = self.base_retry_delay * (2 ** attempt)
Mut_embed_wait_constant(attempt) == base_retry_delay

embed_wait_time(attempt) == base_retry_delay * Pow2(attempt)

CallEvent(resp) == [ev |-> "call", resp |-> resp, secs |-> 0]
SleepEvent(n) == [ev |-> "sleep", resp |-> [raised |-> FALSE, embeddings |-> <<>>], secs |-> n]

NoVector == Vector(0, "none")
NoError == [type |-> "none", attempts |-> 0]

EmbedIdle ==
    /\ eText = [len |-> 0, blank |-> TRUE]
    /\ ePc = "idle"
    /\ eAttempt = 0
    /\ eTrace = <<>>
    /\ eResult = NoVector
    /\ eError = NoError

InitEmbed ==
    /\ eText \in Texts
    /\ ePc = "start"
    /\ eAttempt = 0
    /\ eTrace = <<>>
    /\ eResult = NoVector
    /\ eError = NoError

\* Input validation before the loop: ValueError, without any provider call.
EmbedValidate ==
    /\ ePc = "start"
    /\ IF text_invalid(eText)
       THEN /\ ePc' = "raised"
            /\ eError' = [type |-> "ValueError", attempts |-> 0]
       ELSE /\ ePc' = "loop"
            /\ UNCHANGED eError
    /\ UNCHANGED <<eText, eAttempt, eTrace, eResult>>

\* One iteration of `for attempt in range(self.max_retries)`: the provider
\* call, the checks of its response, and the except-branch (sleep or raise).
EmbedAttempt ==
    /\ ePc = "loop"
    /\ eAttempt < embed_max_retries
    /\ \E resp \in ProviderResponses :
        IF embed_response_ok(resp)
        THEN /\ eResult' = resp.embeddings[1]
             /\ ePc' = "returned"
             /\ eTrace' = Append(eTrace, CallEvent(resp))
             /\ UNCHANGED <<eAttempt, eError>>
        ELSE IF eAttempt < embed_max_retries - 1
        THEN /\ eTrace' = eTrace \o <<CallEvent(resp),
                                      SleepEvent(embed_wait_time(eAttempt))>>
             /\ eAttempt' = eAttempt + 1
             /\ UNCHANGED <<ePc, eResult, eError>>
        ELSE /\ eTrace' = Append(eTrace, CallEvent(resp))
             /\ ePc' = "raised"
             /\ eError' = [type |-> "VoyageAIException",
                           attempts |-> embed_max_retries]
             /\ UNCHANGED <<eAttempt, eResult>>
    /\ UNCHANGED eText

(***************************************************************************)
(* Workflow documents.                                                     *)
(*                                                                         *)
(* A parsed JSON document is a record telling which of the two top-level   *)
(* keys it has and of what JSON type they are.  A node tells whether it    *)
(* has 'id' and 'type'.  `connections` is a function from source keys to   *)
(* successor descriptors; a descriptor is a bare target id (kind "id"), an *)
(* object with a string 'next' (kind "next") or an object with a list      *)
(* 'next' (kind "nextlist"); `targets` lists the ids it names.             *)
(***************************************************************************)
Node(i, t) == [has_id |-> TRUE, id |-> i, has_type |-> TRUE, type |-> t]

Desc(k, ts) == [kind |-> k, targets |-> ts]

NoConnections == [x \in {} |-> Desc("id", <<>>)]

Doc(ns, cs) ==
    [has_nodes |-> TRUE, nodes_is_list |-> TRUE, nodes |-> ns,
     has_connections |-> TRUE, connections_is_dict |-> TRUE, connections |-> cs]

DocSingle == Doc(<<Node("node1", "gmail.send-email")>>, NoConnections)

DocChain ==
    Doc(<<Node("node1", "gmail.send-email"), Node("node2", "slack.post")>>,
        [x \in {"node1"} |-> Desc("next", <<"node2">>)])

DocChainBare ==
    Doc(<<Node("node1", "gmail.send-email"), Node("node2", "slack.post")>>,
        [x \in {"node1"} |-> Desc("id", <<"node2">>)])

DocFanOut ==
    Doc(<<Node("node1", "form.trigger"), Node("node2", "slack.post"),
          Node("node3", "gmail.send-email")>>,
        [x \in {"node1"} |-> Desc("nextlist", <<"node2", "node3">>)])

DocDanglingNext ==
    Doc(<<Node("node1", "gmail.send-email")>>,
        [x \in {"node1"} |-> Desc("next", <<"node9">>)])

DocDanglingList ==
    Doc(<<Node("node1", "form.trigger"), Node("node2", "slack.post")>>,
        [x \in {"node1"} |-> Desc("nextlist", <<"node2", "node9">>)])

DocNoNodesKey == [DocSingle EXCEPT !.has_nodes = FALSE, !.nodes = <<>>]

DocNoConnectionsKey == [DocSingle EXCEPT !.has_connections = FALSE]

DocNodesNotList == [DocSingle EXCEPT !.nodes_is_list = FALSE, !.nodes = <<>>]

DocEmptyNodes == Doc(<<>>, NoConnections)

DocMissingId ==
    Doc(<<[Node("node1", "gmail.send-email") EXCEPT !.has_id = FALSE]>>,
        NoConnections)

DocMissingType ==
    Doc(<<[Node("node1", "gmail.send-email") EXCEPT !.has_type = FALSE]>>,
        NoConnections)

DocDuplicateId ==
    Doc(<<Node("node1", "gmail.send-email"), Node("node1", "slack.post")>>,
        NoConnections)

DocConnectionsNotDict == [DocSingle EXCEPT !.connections_is_dict = FALSE]

DocUnknownSource ==
    Doc(<<Node("node1", "gmail.send-email")>>,
        [x \in {"node9"} |-> Desc("next", <<"node1">>)])

ReplyDocs ==
    {DocSingle, DocChain, DocChainBare, DocFanOut, DocDanglingNext,
     DocDanglingList, DocNoNodesKey, DocNoConnectionsKey, DocNodesNotList,
     DocEmptyNodes, DocMissingId, DocMissingType, DocDuplicateId,
     DocConnectionsNotDict, DocUnknownSource}

\* The node loop of _validate_workflow over nodes[i..]: "ok" or the first
\* error, `seen` being the ids collected so far (node_ids).
RECURSIVE validate_nodes_from(_, _, _)
validate_nodes_from(nodes, i, seen) ==
    IF i > Len(nodes) THEN "ok"
    ELSE IF ~nodes[i].has_id THEN "missing id"
    ELSE IF ~nodes[i].has_type THEN "missing type"
    ELSE IF nodes[i].id \in seen THEN "duplicate node id"
    ELSE validate_nodes_from(nodes, i + 1, seen \cup {nodes[i].id})

NodeIds(doc) == {doc.nodes[i].id : i \in 1..Len(doc.nodes)}

\* ClaudeService._validate_workflow: "ok", or the ValueError it raises.
Mut_validate_workflow_no_sources(workflow) ==
    IF ~workflow.has_nodes THEN "missing nodes"
    ELSE IF ~workflow.has_connections THEN "missing connections"
    ELSE IF ~workflow.nodes_is_list THEN "nodes must be an array"
    ELSE IF Len(workflow.nodes) = 0 THEN "no nodes"
    ELSE IF validate_nodes_from(workflow.nodes, 1, {}) # "ok"
    THEN validate_nodes_from(workflow.nodes, 1, {})
    ELSE IF ~workflow.connections_is_dict THEN "connections must be an object"
    ELSE "ok"

_validate_workflow(workflow) ==
    IF ~workflow.has_nodes THEN "missing nodes"
    ELSE IF ~workflow.has_connections THEN "missing connections"
    ELSE IF ~workflow.nodes_is_list THEN "nodes must be an array"
    ELSE IF Len(workflow.nodes) = 0 THEN "no nodes"
    ELSE IF validate_nodes_from(workflow.nodes, 1, {}) # "ok"
    THEN validate_nodes_from(workflow.nodes, 1, {})
    ELSE IF ~workflow.connections_is_dict THEN "connections must be an object"
    ELSE IF \E source_id \in DOMAIN workflow.connections :
                source_id \notin NodeIds(workflow)
    THEN "unknown connection source"
    ELSE "ok"

(***************************************************************************)
(* ClaudeService.generate_workflow.                                        *)
(*                                                                         *)
(* A raw model reply is its characters (for the 200-character excerpt) and *)
(* what json.loads makes of it after fence stripping: a document or a      *)
(* JSONDecodeError.  A BedrockException from _call_bedrock is its message  *)
(* template and whether its text contains "ThrottlingException".           *)
(***************************************************************************)
claude_max_retries == 3
reply_excerpt_length == 200

Chars(n) == [i \in 1..n |-> "c"]

BadReply(n) == [chars |-> Chars(n), parses |-> FALSE, doc |-> DocEmptyNodes]
JsonReply(d) == [chars |-> Chars(40), parses |-> TRUE, doc |-> d]

BadReplies == {BadReply(13), BadReply(200), BadReply(201)}

BedrockErrors ==
    {[template |-> "Rate limit exceeded", has_throttling |-> FALSE],
     [template |-> "Rate limit exceeded", has_throttling |-> TRUE],
     [template |-> "Bedrock call failed", has_throttling |-> FALSE]}

NoBedrockError == [template |-> "none", has_throttling |-> FALSE]

\* What one _call_bedrock can come back with.
CallReturned(r) == [raised |-> FALSE, error |-> NoBedrockError, reply |-> r]
CallRaised(e) == [raised |-> TRUE, error |-> e, reply |-> BadReply(0)]

BedrockOutcomes ==
    {CallRaised(e) : e \in BedrockErrors}
        \cup {CallReturned(r) : r \in BadReplies}
        \cup {CallReturned(JsonReply(d)) : d \in ReplyDocs}

Msg(r, k, q) == [role |-> r, content |-> [kind |-> k, text |-> q]]

Queries == {"send an email"}

Histories ==
    {<<>>,
     <<Msg("user", "history", "h1"), Msg("assistant", "history", "h2")>>}

\* _build_workflow_prompt / _build_stricter_prompt
WorkflowPrompt(q) == [kind |-> "workflow_prompt", text |-> q]
StricterPrompt(q) == [kind |-> "stricter_prompt", text |-> q]

\* messages[-1]["content"] = self._build_stricter_prompt(user_query, tools_context)
Mut_with_stricter_prompt_first(messages, q) ==
    [messages EXCEPT ![1].content = StricterPrompt(q)]

with_stricter_prompt(messages, q) ==
    [messages EXCEPT ![Len(messages)].content = StricterPrompt(q)]

\* response_text[:200]
Excerpt(chars) == SubSeq(chars, 1, Min(Len(chars), reply_excerpt_length))

NoGenError == [type |-> "none", template |-> "none", attempts |-> 0,
               excerpt |-> <<>>, has_throttling |-> FALSE,
               has_rate_limit |-> FALSE, cause |-> "none"]

ParseError(chars) ==
    [type |-> "BedrockException", template |-> "Failed to parse valid JSON",
     attempts |-> claude_max_retries, excerpt |-> Excerpt(chars),
     has_throttling |-> FALSE, has_rate_limit |-> FALSE,
     cause |-> "JSONDecodeError"]

\* BedrockException(f"Workflow generation failed: {str(e)}")
GenerationFailed(e) ==
    [type |-> "BedrockException", template |-> "Workflow generation failed",
     attempts |-> 0, excerpt |-> <<>>,
     has_throttling |-> e.has_throttling,
     has_rate_limit |-> (e.template = "Rate limit exceeded"),
     cause |-> e.template]

ValidationErrorText == [template |-> "ValueError", has_throttling |-> FALSE]

\* The try-block of one attempt: "ok", "json" (JSONDecodeError) or "other".
attempt_result(out) ==
    IF out.raised THEN "other"
    ELSE IF ~out.reply.parses THEN "json"
    ELSE IF _validate_workflow(out.reply.doc) # "ok" THEN "other"
    ELSE "ok"

\* str(e) of the exception the `except Exception` branch sees
attempt_error(out) == IF out.raised THEN out.error ELSE ValidationErrorText

GenIdle ==
    /\ gQuery = ""
    /\ gHistory = <<>>
    /\ gMessages = <<>>
    /\ gPc = "idle"
    /\ gAttempt = 0
    /\ gCalls = <<>>
    /\ gResult = DocEmptyNodes
    /\ gError = NoGenError

InitGen ==
    /\ gQuery \in Queries
    /\ gHistory \in Histories
    /\ gMessages = <<>>
    /\ gPc = "start"
    /\ gAttempt = 0
    /\ gCalls = <<>>
    /\ gResult = DocEmptyNodes
    /\ gError = NoGenError

\* Lines 54-79: build the prompt and the messages array.
GenBuildMessages ==
    /\ gPc = "start"
    /\ gMessages' =
           gHistory \o <<[role |-> "user", content |-> WorkflowPrompt(gQuery)]>>
    /\ gPc' = "loop"
    /\ UNCHANGED <<gQuery, gHistory, gAttempt, gCalls, gResult, gError>>

\* One iteration of `for attempt in range(self.max_retries)`.
GenAttempt ==
    /\ gPc = "loop"
    /\ gAttempt < claude_max_retries
    /\ \E out \in BedrockOutcomes :
        /\ gCalls' = Append(gCalls, [messages |-> gMessages, out |-> out])
        /\ CASE attempt_result(out) = "ok" ->
                  /\ gResult' = out.reply.doc
                  /\ gPc' = "returned"
                  /\ UNCHANGED <<gMessages, gAttempt, gError>>
             [] attempt_result(out) = "json" ->
                  IF gAttempt < claude_max_retries - 1
                  THEN /\ gMessages' = with_stricter_prompt(gMessages, gQuery)
                       /\ gAttempt' = gAttempt + 1
                       /\ UNCHANGED <<gPc, gResult, gError>>
                  ELSE /\ gError' = ParseError(out.reply.chars)
                       /\ gPc' = "raised"
                       /\ UNCHANGED <<gMessages, gAttempt, gResult>>
             [] attempt_result(out) = "other" ->
                  IF /\ gAttempt < claude_max_retries - 1
                     /\ ~attempt_error(out).has_throttling
                  THEN /\ gAttempt' = gAttempt + 1
                       /\ UNCHANGED <<gMessages, gPc, gResult, gError>>
                  ELSE /\ gError' = GenerationFailed(attempt_error(out))
                       /\ gPc' = "raised"
                       /\ UNCHANGED <<gMessages, gAttempt, gResult>>
    /\ UNCHANGED <<gQuery, gHistory>>

(***************************************************************************)
(* QdrantService.search_tools (called without metadata_filter, as the      *)
(* routes do).  The query vector is modelled by its length.  A raw hit has *)
(* an internal id, a score and a payload; the payload may lack             *)
(* 'original_id' and 'auth_required', or be absent altogether (then        *)
(* reading it raises inside the try-block).                                *)
(***************************************************************************)
qdrant_max_retries == 2
qdrant_retry_delay == 1

EmbeddingLengths == {512, 1024, 1025}

Hit(i, sc, hp, ho, oid, slug, ha, auth) ==
    [id |-> i, score |-> sc, has_payload |-> hp, has_original_id |-> ho,
     original_id |-> oid, tool_slug |-> slug, has_auth_required |-> ha,
     auth_required |-> auth]

HitGmail == Hit("p1", 82, TRUE, TRUE, "gmail.send-email", "gmail", TRUE, FALSE)
HitSlack == Hit("p2", 49, TRUE, FALSE, "", "slack", FALSE, FALSE)
HitNoPayload == Hit("p3", 70, FALSE, FALSE, "", "", FALSE, FALSE)

MaxHits == 2
top_k_tools == 5
TopKs == {0, 1, 2}

HitLists == UNION {[1..n -> {HitGmail, HitSlack, HitNoPayload}] : n \in 0..MaxHits}

\* What client.search(limit) can come back with: an exception, or at most
\* `limit` hits.
QdrantResponses(limit) ==
    {[raised |-> TRUE, hits |-> <<>>]}
        \cup {[raised |-> FALSE, hits |-> hs] :
                hs \in {h \in HitLists : Len(h) <= limit}}

\* `if top_k is None: top_k = self.settings.top_k_tools`
search_limit(top_k) == IF top_k = 0 THEN top_k_tools ELSE top_k

\* One element of parsed_results (lines 82-97), reduced to four fields.
parse_hit(h) ==
    [id |-> IF h.has_original_id THEN h.original_id ELSE h.id,
     score |-> h.score,
     tool_slug |-> h.tool_slug,
     auth_required |-> IF h.has_auth_required THEN h.auth_required ELSE TRUE]

parse_hits(hits) == [i \in 1..Len(hits) |-> parse_hit(hits[i])]

\* The try-block succeeds: the query returned and every hit has a payload.
search_response_ok(resp) ==
    /\ ~resp.raised
    /\ \A i \in 1..Len(resp.hits) : resp.hits[i].has_payload

\* `if attempt < self.max_retries - 1` in the except-branch
Mut_search_may_retry_never(attempt) == FALSE

search_may_retry(attempt) == attempt < qdrant_max_retries - 1

QueryEvent(resp) == [ev |-> "query", resp |-> resp, secs |-> 0]
SearchSleepEvent(n) == [ev |-> "sleep", resp |-> [raised |-> FALSE, hits |-> <<>>], secs |-> n]

NoSearchError == [type |-> "none", attempts |-> 0]

SearchIdle ==
    /\ sEmbedding = 0
    /\ sTopK = 0
    /\ sPc = "idle"
    /\ sAttempt = 0
    /\ sTrace = <<>>
    /\ sResult = <<>>
    /\ sError = NoSearchError

InitSearch ==
    /\ sEmbedding \in EmbeddingLengths
    /\ sTopK \in TopKs
    /\ sPc = "start"
    /\ sAttempt = 0
    /\ sTrace = <<>>
    /\ sResult = <<>>
    /\ sError = NoSearchError

\* Lines 57-62: the dimension check, before any query.
SearchValidate ==
    /\ sPc = "start"
    /\ IF sEmbedding # embedding_dimension
       THEN /\ sPc' = "raised"
            /\ sError' = [type |-> "ValueError", attempts |-> 0]
       ELSE /\ sPc' = "loop"
            /\ UNCHANGED sError
    /\ UNCHANGED <<sEmbedding, sTopK, sAttempt, sTrace, sResult>>

\* One iteration of `for attempt in range(self.max_retries)`.
SearchAttempt ==
    /\ sPc = "loop"
    /\ sAttempt < qdrant_max_retries
    /\ \E resp \in QdrantResponses(search_limit(sTopK)) :
        IF search_response_ok(resp)
        THEN /\ sResult' = parse_hits(resp.hits)
             /\ sPc' = "returned"
             /\ sTrace' = Append(sTrace, QueryEvent(resp))
             /\ UNCHANGED <<sAttempt, sError>>
        ELSE IF search_may_retry(sAttempt)
        THEN /\ sTrace' = sTrace \o <<QueryEvent(resp),
                                      SearchSleepEvent(qdrant_retry_delay)>>
             /\ sAttempt' = sAttempt + 1
             /\ UNCHANGED <<sPc, sResult, sError>>
        ELSE /\ sTrace' = Append(sTrace, QueryEvent(resp))
             /\ sPc' = "raised"
             /\ sError' = [type |-> "QdrantException",
                           attempts |-> qdrant_max_retries]
             /\ UNCHANGED <<sAttempt, sResult>>
    /\ UNCHANGED <<sEmbedding, sTopK>>

(***************************************************************************)
(* The relational store (models/conversation.py, message.py, workflow.py). *)
(* Timestamps are values of a clock that advances with every write.        *)
(* Absent (None) rows are the No... records.                               *)
(***************************************************************************)
ConvIds == {"c1", "c2"}

ConvRow(i, now) ==
    [id |-> i, is_deleted |-> FALSE, created_at |-> now, updated_at |-> now,
     summary |-> "", last_summarized_at |-> 0]

NoConv ==
    [id |-> "none", is_deleted |-> FALSE, created_at |-> 0, updated_at |-> 0,
     summary |-> "", last_summarized_at |-> 0]

\* A nullable JSON column: NULL, or a list / dict given by its set of items.
JsonNull == [is_null |-> TRUE, items |-> {}]
JsonValue(S) == [is_null |-> FALSE, items |-> S]

MsgRow(c, r, txt, now) ==
    [conversation_id |-> c, role |-> r, content |-> txt, timestamp |-> now,
     tools_retrieved |-> JsonNull, similarity_scores |-> JsonNull]

\* WorkflowState(conversation_id=..., workflow_json=...): version defaults to 1.
WfRow(i, c, doc, now) ==
    [id |-> i, conversation_id |-> c, workflow_json |-> doc, version |-> 1,
     created_at |-> now, updated_at |-> now]

NoWf == WfRow(0, "none", DocEmptyNodes, 0)

\* ConversationService.get_conversation: the row with this id that is not
\* soft-deleted, or None.
Mut_get_conversation_any_row(convs, conversation_id) ==
    IF \E row \in convs : row.id = conversation_id
    THEN CHOOSE row \in convs : row.id = conversation_id
    ELSE NoConv

get_conversation(convs, conversation_id) ==
    IF \E row \in convs : row.id = conversation_id /\ row.is_deleted = FALSE
    THEN CHOOSE row \in convs :
            row.id = conversation_id /\ row.is_deleted = FALSE
    ELSE NoConv

\* self.db.query(WorkflowState).filter(conversation_id == ...).first()
wf_select(wfs, conversation_id) ==
    IF \E row \in wfs : row.conversation_id = conversation_id
    THEN CHOOSE row \in wfs : row.conversation_id = conversation_id
    ELSE NoWf

\* ConversationService.get_current_workflow
get_current_workflow(wfs, conversation_id) ==
    wf_select(wfs, conversation_id).workflow_json

\* Lines 180-182: the update of an existing WorkflowState object.
Mut_wf_updated_same_version(row, workflow_json, now) ==
    [row EXCEPT !.workflow_json = workflow_json, !.updated_at = now]

wf_updated(row, workflow_json, now) ==
    [row EXCEPT !.workflow_json = workflow_json,
                !.version = row.version + 1,
                !.updated_at = now]

\* The unique constraint on workflow_states.conversation_id rejects the INSERT.
wf_insert_conflicts(wfs, conversation_id) ==
    \E row \in wfs : row.conversation_id = conversation_id

\* self.db.commit() of save_workflow, `read` being what the query before it
\* returned: UPDATE ... WHERE id = read.id, or INSERT of a new row.
wf_commit(wfs, conversation_id, workflow_json, now, read) ==
    IF read # NoWf
    THEN {IF row.id = read.id THEN wf_updated(read, workflow_json, now) ELSE row :
            row \in wfs}
    ELSE wfs \cup {WfRow(now, conversation_id, workflow_json, now)}

\* ConversationService.save_workflow run without interruption.
save_workflow(wfs, conversation_id, workflow_json, now) ==
    wf_commit(wfs, conversation_id, workflow_json, now,
              wf_select(wfs, conversation_id))

\* Lines 325-326 of delete_conversation as the UPDATE the commit issues for
\* the row with this primary key.
Mut_soft_delete_flag_only_timestamp(convs, conversation_id, now) ==
    {IF row.id = conversation_id
     THEN [row EXCEPT !.updated_at = now]
     ELSE row : row \in convs}

soft_delete(convs, conversation_id, now) ==
    {IF row.id = conversation_id
     THEN [row EXCEPT !.is_deleted = TRUE, !.updated_at = now]
     ELSE row : row \in convs}

\* Line 148 of save_message: conversation.updated_at = datetime.utcnow(),
\* as the UPDATE the commit issues for the row with this primary key.
touch_conversation(convs, conversation_id, now) ==
    {IF row.id = conversation_id
     THEN [row EXCEPT !.updated_at = now]
     ELSE row : row \in convs}

\* self.db.add(message) and the INSERT its commit issues.
Mut_insert_message_over_last(msgs, row) ==
    IF msgs = <<>> THEN <<row>> ELSE [msgs EXCEPT ![Len(msgs)] = row]

insert_message(msgs, row) == Append(msgs, row)

\* The indices of the rows of `msgs` that belong to the conversation.
Mut_message_rows_unfiltered(msgs, conversation_id) == 1..Len(msgs)

message_rows(msgs, conversation_id) ==
    {i \in 1..Len(msgs) : msgs[i].conversation_id = conversation_id}

\* ORDER BY timestamp over the rows with indices S, ascending; rows with equal
\* timestamps come in rowid (insertion) order.
RECURSIVE order_by_timestamp(_, _)
order_by_timestamp(msgs, S) ==
    IF S = {} THEN <<>>
    ELSE LET i == CHOOSE i \in S :
                    \A j \in S :
                        \/ msgs[i].timestamp < msgs[j].timestamp
                        \/ msgs[i].timestamp = msgs[j].timestamp /\ i <= j
         IN <<msgs[i]>> \o order_by_timestamp(msgs, S \ {i})

\* list(reversed(xs))
reversed(xs) == [i \in 1..Len(xs) |-> xs[Len(xs) + 1 - i]]

\* .limit(n).all()
limit(xs, n) == SubSeq(xs, 1, Min(n, Len(xs)))

\* get_conversation_history returns None.
NoHistory ==
    [found |-> FALSE, conversation |-> NoConv, messages |-> <<>>,
     summary |-> "", has_more |-> FALSE, total_messages |-> 0]

\* ConversationService.get_conversation_history
Mut_get_conversation_history_newest_first(convs, msgs, conversation_id, last_n) ==
    IF get_conversation(convs, conversation_id) = NoConv
    THEN NoHistory
    ELSE LET rows == message_rows(msgs, conversation_id)
             total_messages == Cardinality(rows)
         IN [found |-> TRUE,
             conversation |-> get_conversation(convs, conversation_id),
             messages |-> limit(reversed(order_by_timestamp(msgs, rows)), last_n),
             summary |-> get_conversation(convs, conversation_id).summary,
             has_more |-> total_messages > last_n,
             total_messages |-> total_messages]

get_conversation_history(convs, msgs, conversation_id, last_n) ==
    IF get_conversation(convs, conversation_id) = NoConv
    THEN NoHistory
    ELSE LET rows == message_rows(msgs, conversation_id)
             total_messages == Cardinality(rows)
             newest_first == limit(reversed(order_by_timestamp(msgs, rows)), last_n)
         IN [found |-> TRUE,
             conversation |-> get_conversation(convs, conversation_id),
             messages |-> reversed(newest_first),
             summary |-> get_conversation(convs, conversation_id).summary,
             has_more |-> total_messages > last_n,
             total_messages |-> total_messages]

\* {"role": msg.role.value, "content": msg.content}
role_and_content(xs) ==
    [i \in 1..Len(xs) |-> [role |-> xs[i].role, content |-> xs[i].content]]

\* ConversationService.get_messages_for_summarization
Mut_get_messages_for_summarization_all_but_one(msgs, conversation_id, exclude_last_n) ==
    LET rows == message_rows(msgs, conversation_id)
        total_messages == Cardinality(rows)
    IN IF total_messages - exclude_last_n <= 0 THEN <<>>
       ELSE role_and_content(
                limit(order_by_timestamp(msgs, rows), total_messages - 1))

get_messages_for_summarization(msgs, conversation_id, exclude_last_n) ==
    LET rows == message_rows(msgs, conversation_id)
        total_messages == Cardinality(rows)
        messages_to_summarize ==
            IF total_messages - exclude_last_n > 0
            THEN total_messages - exclude_last_n ELSE 0
    IN IF messages_to_summarize = 0 THEN <<>>
       ELSE role_and_content(
                limit(order_by_timestamp(msgs, rows), messages_to_summarize))

\* ConversationService.update_summary, lines 231-234, as the UPDATE the
\* commit issues (updated_at follows through onupdate).
update_summary(convs, conversation_id, summary, now) ==
    {IF row.id = conversation_id
     THEN [row EXCEPT !.summary = summary, !.last_summarized_at = now,
                      !.updated_at = now]
     ELSE row : row \in convs}

summarize_min_total == 10
summarize_min_since == 5

\* ConversationService._check_summarization_needed.  last_summarized_at is
\* NULL (0 here) until update_summary has run; with more than 10 messages
\* and no live conversation row, `conversation.last_summarized_at` raises.
Mut_check_summarization_needed_from_ten(convs, msgs, conversation_id) ==
    IF Cardinality(message_rows(msgs, conversation_id)) >= summarize_min_total
    THEN "True" ELSE "False"

_check_summarization_needed(convs, msgs, conversation_id) ==
    LET total_messages == Cardinality(message_rows(msgs, conversation_id))
        conversation == get_conversation(convs, conversation_id)
        messages_since ==
            Cardinality({i \in message_rows(msgs, conversation_id) :
                            msgs[i].timestamp > conversation.last_summarized_at})
    IN IF total_messages > summarize_min_total
       THEN IF conversation = NoConv THEN "AttributeError"
            ELSE IF conversation.last_summarized_at = 0 THEN "True"
            ELSE IF messages_since >= summarize_min_since THEN "True"
            ELSE "False"
       ELSE "False"

\* The last_n and exclude_last_n arguments the reads are evaluated with.
LastNs == {1, 2, 3, 5}

DbInit ==
    /\ dbConvs = {}
    /\ dbMsgs = <<>>
    /\ dbWfs = {}
    /\ dbClock = 1

(***************************************************************************)
(* ConversationService called through one session, one call at a time (as *)
(* tests/test_conversation_service.py does).  Reads are the operators      *)
(* above; each write below is one whole service call.                      *)
(***************************************************************************)
MaxOps == 5

Roles == {"user", "assistant"}
Contents == {"hello"}
SavedDocs == {DocSingle, DocChain}

Call(op, c, ret) == [op |-> op, conv |-> c, ret |-> ret]

SvcIdle ==
    /\ svcLast = Call("none", "none", "none")
    /\ hOps = 0
    /\ hSaveCount = [c \in ConvIds |-> 0]
    /\ hLastSaved = [c \in ConvIds |-> DocEmptyNodes]
    /\ hDeleted = {}
    /\ hSince = [c \in ConvIds |-> [summarized |-> FALSE, since |-> 0]]

\* uuid.uuid4(): an identifier no conversation row has yet.
FreshConvIds == {c \in ConvIds : \A row \in dbConvs : row.id # c}

\* ConversationService.create_conversation
SvcCreateConversation ==
    /\ hOps < MaxOps
    /\ \E c \in FreshConvIds :
        /\ dbConvs' = dbConvs \cup {ConvRow(c, dbClock)}
        /\ svcLast' = Call("create_conversation", c, c)
    /\ dbClock' = dbClock + 1
    /\ hOps' = hOps + 1
    /\ UNCHANGED <<dbMsgs, dbWfs, hSaveCount, hLastSaved, hDeleted, hSince>>

\* ConversationService.save_message
SvcSaveMessage ==
    /\ hOps < MaxOps
    /\ \E c \in ConvIds, r \in Roles, txt \in Contents :
        IF get_conversation(dbConvs, c) = NoConv
        THEN /\ svcLast' = Call("save_message", c, "ValueError")
             /\ UNCHANGED <<dbConvs, dbMsgs, dbClock, hSince>>
        ELSE /\ dbMsgs' = insert_message(dbMsgs, MsgRow(c, r, txt, dbClock))
             /\ dbConvs' = touch_conversation(dbConvs, c, dbClock)
             /\ dbClock' = dbClock + 1
             /\ svcLast' = Call("save_message", c, "message")
             /\ hSince' = [hSince EXCEPT ![c].since = @ + 1]
    /\ hOps' = hOps + 1
    /\ UNCHANGED <<dbWfs, hSaveCount, hLastSaved, hDeleted>>

\* ConversationService.save_workflow
SvcSaveWorkflow ==
    /\ hOps < MaxOps
    /\ \E c \in ConvIds, doc \in SavedDocs :
        /\ dbWfs' = save_workflow(dbWfs, c, doc, dbClock)
        /\ svcLast' = Call("save_workflow", c, "workflow_state")
        /\ hSaveCount' = [hSaveCount EXCEPT ![c] = @ + 1]
        /\ hLastSaved' = [hLastSaved EXCEPT ![c] = doc]
    /\ dbClock' = dbClock + 1
    /\ hOps' = hOps + 1
    /\ UNCHANGED <<dbConvs, dbMsgs, hDeleted, hSince>>

\* ConversationService.delete_conversation
SvcDeleteConversation ==
    /\ hOps < MaxOps
    /\ \E c \in ConvIds :
        IF get_conversation(dbConvs, c) = NoConv
        THEN /\ svcLast' = Call("delete_conversation", c, "False")
             /\ UNCHANGED <<dbConvs, dbClock, hDeleted>>
        ELSE /\ dbConvs' = soft_delete(dbConvs, c, dbClock)
             /\ dbClock' = dbClock + 1
             /\ svcLast' = Call("delete_conversation", c, "True")
             /\ hDeleted' = hDeleted \cup {c}
    /\ hOps' = hOps + 1
    /\ UNCHANGED <<dbMsgs, dbWfs, hSaveCount, hLastSaved, hSince>>

(***************************************************************************)
(* ConversationService, the summarization trigger: save_message and        *)
(* update_summary on a store that holds two conversations already.         *)
(***************************************************************************)
MaxSumOps == 17

\* The store after create_conversation twice and one save_message to c2.
StoreWithConversations ==
    /\ dbConvs = {ConvRow("c1", 1), [ConvRow("c2", 2) EXCEPT !.updated_at = 3]}
    /\ dbMsgs = <<MsgRow("c2", "user", "hello", 3)>>
    /\ dbWfs = {}
    /\ dbClock = 4

\* save_message(c1, ...): lines 132-156.  The trailing call of
\* _check_summarization_needed reads only, and its value is dropped.
SumSaveMessage ==
    /\ hOps < MaxSumOps
    /\ get_conversation(dbConvs, "c1") # NoConv
    /\ dbMsgs' = insert_message(dbMsgs, MsgRow("c1", "user", "hello", dbClock))
    /\ dbConvs' = touch_conversation(dbConvs, "c1", dbClock)
    /\ dbClock' = dbClock + 1
    /\ svcLast' = Call("save_message", "c1", "message")
    /\ hSince' = [hSince EXCEPT !["c1"].since = @ + 1]
    /\ hOps' = hOps + 1
    /\ UNCHANGED <<dbWfs, hSaveCount, hLastSaved, hDeleted>>

\* update_summary(c1, ...)
SumUpdateSummary ==
    /\ hOps < MaxSumOps
    /\ get_conversation(dbConvs, "c1") # NoConv
    /\ dbConvs' = update_summary(dbConvs, "c1", "summary", dbClock)
    /\ dbClock' = dbClock + 1
    /\ svcLast' = Call("update_summary", "c1", "None")
    /\ hSince' = [hSince EXCEPT !["c1"] = [summarized |-> TRUE, since |-> 0]]
    /\ hOps' = hOps + 1
    /\ UNCHANGED <<dbMsgs, dbWfs, hSaveCount, hLastSaved, hDeleted>>

\* ConversationService.update_summary on any conversation.
SvcUpdateSummary ==
    /\ hOps < MaxOps
    /\ \E c \in ConvIds :
        IF get_conversation(dbConvs, c) = NoConv
        THEN /\ svcLast' = Call("update_summary", c, "ValueError")
             /\ UNCHANGED <<dbConvs, dbClock, hSince>>
        ELSE /\ dbConvs' = update_summary(dbConvs, c, "summary", dbClock)
             /\ dbClock' = dbClock + 1
             /\ svcLast' = Call("update_summary", c, "None")
             /\ hSince' = [hSince EXCEPT ![c] = [summarized |-> TRUE, since |-> 0]]
    /\ hOps' = hOps + 1
    /\ UNCHANGED <<dbMsgs, dbWfs, hSaveCount, hLastSaved, hDeleted>>

(***************************************************************************)
(* The handlers create_workflow and edit_workflow of workflow_routes.py.   *)
(*                                                                         *)
(* Every request has its own Session (get_db_dependency) on the shared     *)
(* database, and nothing in the handlers or in ConversationService locks   *)
(* or isolates a read from the write that follows it.  Requests served by  *)
(* different workers therefore interleave between SQL statements: each     *)
(* step below is one query, one commit, or one call of a remote service.   *)
(* Session.commit() expires the session's objects, so the query of         *)
(* save_workflow reads the row as it is then; the UPDATE it commits writes *)
(* the values computed from that read.                                     *)
(***************************************************************************)
Reqs == {1, 2}
MaxRequests == 2

HTTP_200_OK == 200
HTTP_404_NOT_FOUND == 404
HTTP_429_TOO_MANY_REQUESTS == 429
HTTP_500_INTERNAL_SERVER_ERROR == 500
HTTP_503_SERVICE_UNAVAILABLE == 503

HTTP_400_BAD_REQUEST == 400

\* A response body.  An HTTPException raised by a handler is rendered as
\* {"detail": ...} (no handler for it is registered in create_app);
\* `exc_text` tells whether the text carries str(e) of a caught exception.
NoBody ==
    [shape |-> "none", text |-> "", exc_text |-> FALSE, status |-> "none",
     has_workflow |-> FALSE, confidence |-> 0, message |-> "",
     message_count |-> 0, conversation_id |-> "none"]

Detail(text, exc) ==
    [NoBody EXCEPT !.shape = "detail", !.text = text, !.exc_text = exc]

\* validation_exception_handler: {error, message, details}
ValidationErrorBody ==
    [NoBody EXCEPT !.shape = "error_message_details",
                   !.text = "ValidationError",
                   !.message = "Invalid request data"]

WorkflowResponse(conversation_id, st, has_wf, conf, msg) ==
    [NoBody EXCEPT !.shape = "WorkflowResponse", !.status = st,
                   !.has_workflow = has_wf, !.confidence = conf,
                   !.message = msg, !.conversation_id = conversation_id]

ConversationResponse(count, has_wf) ==
    [NoBody EXCEPT !.shape = "ConversationResponse", !.message_count = count,
                   !.has_workflow = has_wf]

DeleteResponse ==
    [NoBody EXCEPT !.shape = "DeleteResponse",
                   !.message = "Conversation deleted successfully"]

\* The locals of a handler.  `calls` lists the remote services invoked so
\* far; `session` and `rollbacks` follow the request's Session (opened and
\* closed by get_db_dependency; rollbacks counts Session.rollback() calls);
\* saved_messages, saved_workflow and created_conversation record what the
\* request has committed; base and seen are what edit_workflow found at load;
\* classified tells whether filter_by_similarity_threshold was called, found
\* is what search_tools returned and invocations the number of model
\* invocations of the generation call.
ReqIdle ==
    [kind |-> "idle", pc |-> "idle", arg |-> "none", conv |-> "none",
     outcome |-> "none", cur |-> DocEmptyNodes, doc |-> DocEmptyNodes,
     read |-> NoWf, status |-> 0, base |-> 0, seen |-> 0,
     results |-> <<>>, note |-> "", error |-> NoGenError, calls |-> <<>>,
     body |-> NoBody, session |-> "none", rollbacks |-> 0,
     saved_messages |-> 0, saved_workflow |-> FALSE,
     created_conversation |-> FALSE, classified |-> FALSE,
     found |-> <<>>, invocations |-> 0]

RoutesIdle ==
    /\ req = [r \in Reqs |-> ReqIdle]
    /\ hStarted = 0
    /\ hSaves = [c \in ConvIds |-> <<>>]

\* What search_tools hands to the route: a ranked list or QdrantException.
RouteSearchOutcomes ==
    {[raised |-> TRUE, results |-> <<>>],
     [raised |-> FALSE, results |-> <<>>],
     [raised |-> FALSE, results |-> <<[score |-> 49, tool_slug |-> "slack"]>>],
     [raised |-> FALSE, results |-> <<[score |-> 82, tool_slug |-> "gmail"]>>]}

\* What one _call_bedrock of a request can come back with.
RouteCallOutcomes ==
    {CallRaised([template |-> "Rate limit exceeded", has_throttling |-> FALSE]),
     CallRaised([template |-> "Bedrock call failed", has_throttling |-> FALSE]),
     CallRaised([template |-> "Bedrock call failed", has_throttling |-> TRUE]),
     CallReturned(BadReply(13)),
     CallReturned(JsonReply(DocChain)),
     CallReturned(JsonReply(DocDanglingNext)),
     CallReturned(JsonReply(DocUnknownSource))}

RouteCallSeqs == [1..claude_max_retries -> RouteCallOutcomes]

\* The database file a worker finds at start-up: empty, or as one successful
\* POST /create without conversation_id has left it.
StoreAfterCreate ==
    /\ dbConvs = {[ConvRow("c1", 1) EXCEPT !.updated_at = 3]}
    /\ dbMsgs = <<[MsgRow("c1", "user", "query", 2) EXCEPT
                     !.tools_retrieved = JsonValue({"gmail"}),
                     !.similarity_scores = JsonValue({<<"gmail", 82>>})],
                  MsgRow("c1", "assistant", "Generated workflow successfully", 3)>>
    /\ dbWfs = {WfRow(4, "c1", DocChain, 4)}
    /\ dbClock = 5

\* What a generation call hands back, and how many times it called
\* _call_bedrock.
GenOk(d, n) == [ok |-> TRUE, doc |-> d, error |-> NoGenError, invocations |-> n]
GenRaised(e, n) ==
    [ok |-> FALSE, doc |-> DocEmptyNodes, error |-> e, invocations |-> n]

\* ClaudeService.generate_workflow, lines 82-108
Mut_generate_workflow_unvalidated(outs, attempt) ==
    LET out == outs[attempt + 1] IN
    IF ~out.raised /\ out.reply.parses
    THEN GenOk(out.reply.doc, attempt + 1)
    ELSE GenRaised(GenerationFailed(attempt_error(out)), attempt + 1)

\* ClaudeService.generate_workflow, lines 82-108, as a function of what the
\* successive _call_bedrock calls come back with; `attempt` counts from 0.
RECURSIVE generate_workflow(_, _)
generate_workflow(outs, attempt) ==
    LET out == outs[attempt + 1] IN
    CASE attempt_result(out) = "ok" -> GenOk(out.reply.doc, attempt + 1)
      [] attempt_result(out) = "json" ->
            IF attempt < claude_max_retries - 1
            THEN generate_workflow(outs, attempt + 1)
            ELSE GenRaised(ParseError(out.reply.chars), attempt + 1)
      [] attempt_result(out) = "other" ->
            IF /\ attempt < claude_max_retries - 1
               /\ ~attempt_error(out).has_throttling
            THEN generate_workflow(outs, attempt + 1)
            ELSE GenRaised(GenerationFailed(attempt_error(out)), attempt + 1)

\* BedrockException(f"Workflow edit failed: {str(e)}")
EditFailed(out) ==
    [type |-> "BedrockException", template |-> "Workflow edit failed",
     attempts |-> 0, excerpt |-> <<>>,
     has_throttling |-> out.raised /\ out.error.has_throttling,
     has_rate_limit |-> out.raised /\ out.error.template = "Rate limit exceeded",
     cause |-> IF out.raised THEN out.error.template
               ELSE IF ~out.reply.parses THEN "JSONDecodeError"
               ELSE "ValueError"]

\* ClaudeService.generate_workflow_edit, lines 150-156
Mut_generate_workflow_edit_retrying(out) ==
    IF attempt_result(out) = "ok"
    THEN GenOk(out.reply.doc, 1)
    ELSE GenRaised(EditFailed(out), claude_max_retries)

\* ClaudeService.generate_workflow_edit, lines 150-156: a single call.
generate_workflow_edit(out) ==
    IF attempt_result(out) = "ok"
    THEN GenOk(out.reply.doc, 1)
    ELSE GenRaised(EditFailed(out), 1)

\* The status code the handler maps a BedrockException to.
Mut_bedrock_status_unavailable(kind, e) == HTTP_503_SERVICE_UNAVAILABLE

bedrock_status(kind, e) ==
    IF kind = "create"
    THEN IF e.has_rate_limit \/ e.has_throttling
         THEN HTTP_429_TOO_MANY_REQUESTS ELSE HTTP_503_SERVICE_UNAVAILABLE
    ELSE IF e.has_rate_limit
         THEN HTTP_429_TOO_MANY_REQUESTS ELSE HTTP_503_SERVICE_UNAVAILABLE

\* The handler returns or raises; get_db_dependency then closes the session
\* (its finally-branch is `db.close()` and nothing else).
Finished(q, code, body) ==
    [q EXCEPT !.pc = "done", !.status = code, !.body = body,
              !.session = "closed"]

ConversationNotFound == Detail("Conversation not found", FALSE)
NoWorkflowToEdit ==
    Detail("No workflow found to edit. Create a workflow first.", FALSE)

\* A request arrives at POST /create (conversation_id optional).
ReqStartCreate(r) ==
    /\ req[r].pc \in {"idle", "done"}
    /\ hStarted < MaxRequests
    /\ \E a \in ConvIds \cup {"none"} :
        req' = [req EXCEPT ![r] =
                  [ReqIdle EXCEPT !.kind = "create", !.pc = "resolve", !.arg = a,
                                  !.session = "open"]]
    /\ hStarted' = hStarted + 1
    /\ UNCHANGED <<dbVars, hSaves>>

\* A request arrives at POST /edit (conversation_id required).
ReqStartEdit(r) ==
    /\ req[r].pc \in {"idle", "done"}
    /\ hStarted < MaxRequests
    /\ \E a \in ConvIds :
        req' = [req EXCEPT ![r] =
                  [ReqIdle EXCEPT !.kind = "edit", !.pc = "load", !.arg = a,
                                  !.conv = a, !.session = "open"]]
    /\ hStarted' = hStarted + 1
    /\ UNCHANGED <<dbVars, hSaves>>

\* create_workflow step 1: get or create the conversation.  (The history
\* read that follows get_conversation only feeds the prompt.)
ReqResolve(r) ==
    /\ req[r].pc = "resolve"
    /\ IF req[r].arg # "none"
       THEN /\ req' = [req EXCEPT ![r] =
                   IF get_conversation(dbConvs, req[r].arg) = NoConv
                   THEN Finished(req[r], HTTP_404_NOT_FOUND, ConversationNotFound)
                   ELSE [req[r] EXCEPT !.pc = "embed", !.conv = req[r].arg]]
            /\ UNCHANGED dbVars
       ELSE /\ \E c \in FreshConvIds :
                /\ dbConvs' = dbConvs \cup {ConvRow(c, dbClock)}
                /\ req' = [req EXCEPT ![r] =
                             [req[r] EXCEPT !.pc = "embed", !.conv = c,
                                            !.created_conversation = TRUE]]
            /\ dbClock' = dbClock + 1
            /\ UNCHANGED <<dbMsgs, dbWfs>>
    /\ UNCHANGED <<hStarted, hSaves>>

\* edit_workflow step 1, first query: the conversation.
ReqLoadConversation(r) ==
    /\ req[r].pc = "load"
    /\ req' = [req EXCEPT ![r] =
                 IF get_conversation(dbConvs, req[r].arg) = NoConv
                 THEN Finished(req[r], HTTP_404_NOT_FOUND, ConversationNotFound)
                 ELSE [req[r] EXCEPT !.pc = "load_workflow"]]
    /\ UNCHANGED <<dbVars, hStarted, hSaves>>

\* edit_workflow step 1, second query: the current workflow.
ReqLoadWorkflow(r) ==
    /\ req[r].pc = "load_workflow"
    /\ LET row == wf_select(dbWfs, req[r].conv) IN
       req' = [req EXCEPT ![r] =
                 IF row = NoWf
                 THEN Finished(req[r], HTTP_404_NOT_FOUND, NoWorkflowToEdit)
                 ELSE [req[r] EXCEPT !.pc = "embed",
                                     !.cur = get_current_workflow(dbWfs, req[r].conv),
                                     !.base = row.version,
                                     !.seen = Len(hSaves[req[r].conv])]]
    /\ UNCHANGED <<dbVars, hStarted, hSaves>>

Mut_ReqEmbed_discards_conversation(r) ==
    /\ req[r].pc = "embed"
    /\ \E ok \in BOOLEAN :
        LET q == [req[r] EXCEPT !.calls = Append(@, "generate_embedding")] IN
        /\ req' = [req EXCEPT ![r] =
                     IF ok THEN [q EXCEPT !.pc = "search"]
                     ELSE Finished(q, HTTP_503_SERVICE_UNAVAILABLE,
                                   Detail("Embedding service unavailable", TRUE))]
        /\ dbConvs' = IF ~ok /\ q.created_conversation
                      THEN {row \in dbConvs : row.id # q.conv}
                      ELSE dbConvs
    /\ UNCHANGED <<dbMsgs, dbWfs, dbClock, hStarted, hSaves>>

\* Step 2: generate_embedding returns, or raises VoyageAIException.
ReqEmbed(r) ==
    /\ req[r].pc = "embed"
    /\ \E ok \in BOOLEAN :
        LET q == [req[r] EXCEPT !.calls = Append(@, "generate_embedding")] IN
        req' = [req EXCEPT ![r] =
                  IF ok THEN [q EXCEPT !.pc = "search"]
                  ELSE Finished(q, HTTP_503_SERVICE_UNAVAILABLE,
                                Detail("Embedding service unavailable", TRUE))]
    /\ UNCHANGED <<dbVars, hStarted, hSaves>>

\* Step 3 (and, in create_workflow, step 4): search_tools returns or raises
\* QdrantException; create_workflow classifies what it returned.
ReqSearch(r) ==
    /\ req[r].pc = "search"
    /\ \E out \in RouteSearchOutcomes :
        LET q == [req[r] EXCEPT !.calls = Append(@, "search_tools"),
                                !.found = out.results,
                                !.classified =
                                    ~out.raised /\ req[r].kind = "create"]
            filtered_results == filter_by_similarity_threshold(out.results)
        IN req' = [req EXCEPT ![r] =
                  IF out.raised
                  THEN Finished(q, HTTP_503_SERVICE_UNAVAILABLE,
                                Detail("Search service unavailable", TRUE))
                  ELSE IF q.kind = "edit"
                  THEN [q EXCEPT !.pc = "generate", !.outcome = "confident",
                                 !.results = out.results]
                  ELSE IF filtered_results.status \in {"no_match", "ambiguous"}
                  THEN [q EXCEPT !.pc = "user_message",
                                 !.outcome = filtered_results.status,
                                 !.results = filtered_results.results,
                                 !.note = filtered_results.message]
                  ELSE [q EXCEPT !.pc = "generate", !.outcome = "confident",
                                 !.results = filtered_results.results]]
    /\ UNCHANGED <<dbVars, hStarted, hSaves>>

\* Everything generate_workflow / generate_workflow_edit can hand back.
CreateGenResults == {generate_workflow(outs, 0) : outs \in RouteCallSeqs}
EditGenResults == {generate_workflow_edit(out) : out \in RouteCallOutcomes}

\* The detail of the HTTPException a BedrockException is turned into.
bedrock_body(kind, e) ==
    IF bedrock_status(kind, e) = HTTP_429_TOO_MANY_REQUESTS
    THEN Detail("Rate limit exceeded. Please try again in a few seconds.", FALSE)
    ELSE IF kind = "create"
    THEN Detail("Workflow generator unavailable", TRUE)
    ELSE Detail("Workflow editor unavailable", TRUE)

\* generate_workflow / generate_workflow_edit and the except-branches of
\* the handler around it.  (generate_workflow raises BedrockException only,
\* so the `except ValueError` branch of create_workflow is never entered.)
ReqGenerate(r) ==
    /\ req[r].pc = "generate"
    /\ \E res \in IF req[r].kind = "create"
                  THEN CreateGenResults ELSE EditGenResults :
        LET q == [req[r] EXCEPT
                    !.calls = Append(@, IF req[r].kind = "create"
                                        THEN "generate_workflow"
                                        ELSE "generate_workflow_edit"),
                    !.error = res.error,
                    !.invocations = res.invocations]
        IN req' = [req EXCEPT ![r] =
                     IF res.ok
                     THEN [q EXCEPT !.pc = "user_message", !.doc = res.doc]
                     ELSE Finished(q, bedrock_status(q.kind, res.error),
                                   bedrock_body(q.kind, res.error))]
    /\ UNCHANGED <<dbVars, hStarted, hSaves>>

\* {r["tool_slug"]: r["score"] for r in results}: a later entry replaces an
\* earlier one with the same slug.
scores_of(rs) ==
    {<<rs[i].tool_slug, rs[i].score>> :
        i \in {i \in 1..Len(rs) :
                 \A j \in (i + 1)..Len(rs) : rs[j].tool_slug # rs[i].tool_slug}}

\* tools_retrieved of the user message.
Mut_user_tools_null(q) == JsonNull

user_tools(q) ==
    IF q.kind = "edit" THEN JsonNull
    ELSE IF q.outcome \in {"no_match", "ambiguous"} THEN JsonValue({})
    ELSE JsonValue({q.results[i].tool_slug : i \in 1..Len(q.results)})

\* similarity_scores of the user message.
user_scores(q) ==
    IF q.kind = "edit" THEN JsonNull
    ELSE IF q.outcome = "no_match" THEN JsonValue({})
    ELSE IF q.outcome = "ambiguous" THEN JsonValue(scores_of(q.results))
    ELSE JsonValue(scores_of(limit(q.results, 3)))

\* The request text, and the assistant line the handler stores.
Mut_message_content_echo(q) == "query"

message_content(q) ==
    IF q.pc = "user_message" THEN "query"
    ELSE IF q.outcome # "confident" THEN q.note
    ELSE IF q.kind = "create" THEN "Generated workflow successfully"
    ELSE "Updated workflow successfully"

\* The row save_message inserts for the request at its current step.
message_row(q, now) ==
    IF q.pc = "user_message"
    THEN [MsgRow(q.conv, "user", message_content(q), now) EXCEPT
            !.tools_retrieved = user_tools(q),
            !.similarity_scores = user_scores(q)]
    ELSE MsgRow(q.conv, "assistant", message_content(q), now)

\* confidence_score of a successful response, in hundredths.
confidence_score(q) ==
    IF q.outcome = "no_match" THEN 0
    ELSE IF q.kind = "edit" /\ q.results = <<>> THEN 100
    ELSE q.results[1].score

\* The 500 a failure inside the persist step is answered with: the inner
\* try of step 6, or (no_match / ambiguous) the outer catch-all.
persist_failure_body(q) ==
    IF q.outcome = "confident"
    THEN Detail("Failed to save workflow", TRUE)
    ELSE Detail("An unexpected error occurred", TRUE)

\* save_message, whole: the conversation query (ValueError when absent,
\* which the handler turns into a 500), INSERT of the message, UPDATE of the
\* conversation's updated_at, COMMIT.  Query and commit are one step: no
\* request that overlaps another changes a conversation row in between.
ReqSaveMessage(r) ==
    /\ req[r].pc \in {"user_message", "assistant_message"}
    /\ IF get_conversation(dbConvs, req[r].conv) = NoConv
       THEN /\ req' = [req EXCEPT ![r] =
                         Finished(req[r], HTTP_500_INTERNAL_SERVER_ERROR,
                                  persist_failure_body(req[r]))]
            /\ UNCHANGED <<dbConvs, dbMsgs, dbClock>>
       ELSE /\ dbMsgs' = insert_message(dbMsgs, message_row(req[r], dbClock))
            /\ dbConvs' = touch_conversation(dbConvs, req[r].conv, dbClock)
            /\ dbClock' = dbClock + 1
            /\ LET q == [req[r] EXCEPT !.saved_messages = @ + 1] IN
               req' = [req EXCEPT ![r] =
                         IF q.pc = "user_message"
                         THEN [q EXCEPT !.pc = "assistant_message"]
                         ELSE IF q.outcome # "confident"
                         THEN Finished(q, HTTP_200_OK,
                                       WorkflowResponse(q.conv, q.outcome, FALSE,
                                                        confidence_score(q),
                                                        q.note))
                         ELSE [q EXCEPT !.pc = "workflow_select"]]
    /\ UNCHANGED <<dbWfs, hStarted, hSaves>>

\* save_workflow, lines 174-176: the WorkflowState query.
ReqWorkflowSelect(r) ==
    /\ req[r].pc = "workflow_select"
    /\ req' = [req EXCEPT ![r] =
                 [req[r] EXCEPT !.pc = "workflow_commit",
                                !.read = wf_select(dbWfs, req[r].conv)]]
    /\ UNCHANGED <<dbVars, hStarted, hSaves>>

\* What the COMMIT of save_workflow does when no constraint stands in its
\* way: it returns, or the database refuses it (OperationalError).
CommitOutcomes == {"committed", "OperationalError"}

\* The write of save_workflow raises: an INSERT the unique constraint
\* rejects, or a COMMIT the database refuses.
workflow_write_fails(wfs, conversation_id, read, outcome) ==
    \/ read = NoWf /\ wf_insert_conflicts(wfs, conversation_id)
    \/ outcome = "OperationalError"

Mut_ReqWorkflowCommit_undoes_messages(r) ==
    /\ req[r].pc = "workflow_commit"
    /\ \E outcome \in CommitOutcomes :
        IF workflow_write_fails(dbWfs, req[r].conv, req[r].read, outcome)
        THEN /\ req' = [req EXCEPT ![r] =
                          Finished(req[r], HTTP_500_INTERNAL_SERVER_ERROR,
                                   persist_failure_body(req[r]))]
             /\ dbMsgs' = SelectSeq(dbMsgs,
                                    LAMBDA row : row.conversation_id # req[r].conv)
             /\ UNCHANGED <<dbWfs, dbClock, hSaves>>
        ELSE /\ dbWfs' = wf_commit(dbWfs, req[r].conv, req[r].doc, dbClock,
                                   req[r].read)
             /\ dbClock' = dbClock + 1
             /\ hSaves' = [hSaves EXCEPT ![req[r].conv] = Append(@, req[r].doc)]
             /\ req' = [req EXCEPT ![r] =
                          Finished([req[r] EXCEPT !.saved_workflow = TRUE],
                                   HTTP_200_OK,
                                   WorkflowResponse(req[r].conv, "confident", TRUE,
                                                    confidence_score(req[r]),
                                                    ""))]
             /\ UNCHANGED dbMsgs
    /\ UNCHANGED <<dbConvs, hStarted>>

\* save_workflow, lines 178-191: the update or the insert, and COMMIT.  When
\* it raises nothing is stored and the handler answers 500.
ReqWorkflowCommit(r) ==
    /\ req[r].pc = "workflow_commit"
    /\ \E outcome \in CommitOutcomes :
        IF workflow_write_fails(dbWfs, req[r].conv, req[r].read, outcome)
        THEN /\ req' = [req EXCEPT ![r] =
                          Finished(req[r], HTTP_500_INTERNAL_SERVER_ERROR,
                                   persist_failure_body(req[r]))]
             /\ UNCHANGED <<dbWfs, dbClock, hSaves>>
        ELSE /\ dbWfs' = wf_commit(dbWfs, req[r].conv, req[r].doc, dbClock,
                                   req[r].read)
             /\ dbClock' = dbClock + 1
             /\ hSaves' = [hSaves EXCEPT ![req[r].conv] = Append(@, req[r].doc)]
             /\ req' = [req EXCEPT ![r] =
                          Finished([req[r] EXCEPT !.saved_workflow = TRUE],
                                   HTTP_200_OK,
                                   WorkflowResponse(req[r].conv, "confident", TRUE,
                                                    confidence_score(req[r]),
                                                    ""))]
    /\ UNCHANGED <<dbConvs, dbMsgs, hStarted>>

(***************************************************************************)
(* The remaining endpoints, and a request the schema rejects.  On the      *)
(* single event loop that run.py starts, a handler (none of them awaits)   *)
(* runs from its first line to its response before the next request is     *)
(* looked at.                                                              *)
(***************************************************************************)
ApiReqs == {1}

default_last_n == 5

\* A request arrives at GET /conversation/{conversation_id}.
ReqStartGet(r) ==
    /\ req[r].pc \in {"idle", "done"}
    /\ hStarted < MaxRequests
    /\ \E a \in ConvIds :
        req' = [req EXCEPT ![r] =
                  [ReqIdle EXCEPT !.kind = "get", !.pc = "get", !.arg = a,
                                  !.conv = a, !.session = "open"]]
    /\ hStarted' = hStarted + 1
    /\ UNCHANGED <<dbVars, hSaves>>

\* The handler get_conversation.
ReqGet(r) ==
    /\ req[r].pc = "get"
    /\ LET history_data ==
               get_conversation_history(dbConvs, dbMsgs, req[r].arg,
                                        default_last_n)
       IN req' = [req EXCEPT ![r] =
                    IF ~history_data.found
                    THEN Finished(req[r], HTTP_404_NOT_FOUND,
                                  ConversationNotFound)
                    ELSE Finished(req[r], HTTP_200_OK,
                                  ConversationResponse(
                                      history_data.total_messages,
                                      wf_select(dbWfs, req[r].arg) # NoWf))]
    /\ UNCHANGED <<dbVars, hStarted, hSaves>>

\* A request arrives at DELETE /conversation/{conversation_id}.
ReqStartDelete(r) ==
    /\ req[r].pc \in {"idle", "done"}
    /\ hStarted < MaxRequests
    /\ \E a \in ConvIds :
        req' = [req EXCEPT ![r] =
                  [ReqIdle EXCEPT !.kind = "delete", !.pc = "delete", !.arg = a,
                                  !.conv = a, !.session = "open"]]
    /\ hStarted' = hStarted + 1
    /\ UNCHANGED <<dbVars, hSaves>>

\* The handler delete_conversation.
ReqDelete(r) ==
    /\ req[r].pc = "delete"
    /\ IF get_conversation(dbConvs, req[r].arg) = NoConv
       THEN /\ req' = [req EXCEPT ![r] =
                         Finished(req[r], HTTP_404_NOT_FOUND,
                                  ConversationNotFound)]
            /\ UNCHANGED <<dbConvs, dbClock>>
       ELSE /\ dbConvs' = soft_delete(dbConvs, req[r].arg, dbClock)
            /\ dbClock' = dbClock + 1
            /\ req' = [req EXCEPT ![r] =
                         Finished(req[r], HTTP_200_OK, DeleteResponse)]
    /\ UNCHANGED <<dbMsgs, dbWfs, hStarted, hSaves>>

\* A POST whose body the request schema rejects: the handler is not entered
\* and validation_exception_handler answers.
ReqRejectInvalid(r) ==
    /\ req[r].pc \in {"idle", "done"}
    /\ hStarted < MaxRequests
    /\ \E k \in {"create", "edit"} :
        req' = [req EXCEPT ![r] =
                  [ReqIdle EXCEPT !.kind = k, !.pc = "done",
                                  !.status = HTTP_400_BAD_REQUEST,
                                  !.body = ValidationErrorBody]]
    /\ hStarted' = hStarted + 1
    /\ UNCHANGED <<dbVars, hSaves>>

(***************************************************************************)
(* config.py: the settings singleton.                                      *)
(***************************************************************************)
critical_fields == {"aws_access_key_id", "aws_secret_access_key", "voyage_ai_key"}

\* f"your_{field}_here"
Placeholder ==
    [aws_access_key_id |-> "your_aws_access_key_id_here",
     aws_secret_access_key |-> "your_aws_secret_access_key_here",
     voyage_ai_key |-> "your_voyage_ai_key_here"]

\* What the environment can hold for a field: nothing ("unset"), the empty
\* string, a placeholder, or a key.
EnvValues(field) ==
    {"unset", "", Placeholder[field], "key"} \cup
        IF field = "voyage_ai_key" THEN {"your_voyage_key_here"} ELSE {}

Environments ==
    {e \in [critical_fields -> {"unset", "", "key", "your_voyage_key_here"}
                                   \cup {Placeholder[f] : f \in critical_fields}] :
        \A f \in critical_fields : e[f] \in EnvValues(f)}

\* `settings: Optional[Settings] = None`
NoSettings == [f \in critical_fields |-> "None"]

\* Settings(): the three fields are required (Field(...)); an unset one
\* makes the constructor raise.
SettingsRaises(env) == \E f \in critical_fields : env[f] = "unset"

\* _validate_critical_settings: the fields it reports missing.
missing(s) == {f \in critical_fields : s[f] = "" \/ s[f] = Placeholder[f]}

CfgCall(op, outcome, value) == [op |-> op, outcome |-> outcome, value |-> value]

CfgIdle ==
    /\ environ = [f \in critical_fields |-> "key"]
    /\ settings = NoSettings
    /\ cfgLast = CfgCall("none", "none", NoSettings)

InitCfg ==
    /\ environ \in Environments
    /\ settings = NoSettings
    /\ cfgLast = CfgCall("none", "none", NoSettings)

\* The body of load_settings, called as `op`: the global is assigned before
\* _validate_critical_settings looks at it.
LoadSettingsAs(op) ==
    /\ IF settings # NoSettings
       THEN /\ cfgLast' = CfgCall(op, "returned", settings)
            /\ UNCHANGED settings
       ELSE IF SettingsRaises(environ)
       THEN /\ cfgLast' = CfgCall(op, "ValueError", NoSettings)
            /\ UNCHANGED settings
       ELSE /\ settings' = environ
            /\ cfgLast' = IF missing(environ) # {}
                          THEN CfgCall(op, "ValueError", NoSettings)
                          ELSE CfgCall(op, "returned", environ)
    /\ UNCHANGED environ

load_settings == LoadSettingsAs("load_settings")

\* get_settings: the singleton, loaded on first use.
get_settings ==
    IF settings = NoSettings
    THEN LoadSettingsAs("get_settings")
    ELSE /\ cfgLast' = CfgCall("get_settings", "returned", settings)
         /\ UNCHANGED <<environ, settings>>

(***************************************************************************)
(* health_routes.py: GET /health.                                          *)
(***************************************************************************)
MaxHealthChecks == 3

\* QdrantService.health_check() returns True or False, or constructing the
\* service raises; db.execute(text("SELECT 1")) returns or raises.
QdrantProbes == {"True", "False", "raises"}
DatabaseProbes == {"ok", "raises"}

NoServices == [qdrant |-> "absent", database |-> "absent", embedding |-> "absent"]

NoHealthResponse == [http |-> 0, status |-> "none", services |-> NoServices]

HealthIdle ==
    /\ hcPc = "idle"
    /\ services_status = NoServices
    /\ overall_healthy = TRUE
    /\ hcResponse = NoHealthResponse
    /\ hcChecks = 0

\* A GET /health arrives: lines 31-32.
HealthStart ==
    /\ hcPc \in {"idle", "done"}
    /\ hcChecks < MaxHealthChecks
    /\ hcPc' = "qdrant"
    /\ services_status' = NoServices
    /\ overall_healthy' = TRUE
    /\ hcChecks' = hcChecks + 1
    /\ UNCHANGED <<hcResponse, cfgVars>>

\* Lines 35-47.
HealthQdrant ==
    /\ hcPc = "qdrant"
    /\ \E probe \in QdrantProbes :
        IF probe = "True"
        THEN /\ services_status' = [services_status EXCEPT !.qdrant = "healthy"]
             /\ UNCHANGED overall_healthy
        ELSE /\ services_status' = [services_status EXCEPT !.qdrant = "unavailable"]
             /\ overall_healthy' = FALSE
    /\ hcPc' = "database"
    /\ UNCHANGED <<hcResponse, hcChecks, cfgVars>>

\* Lines 50-57.
HealthDatabase ==
    /\ hcPc = "database"
    /\ \E probe \in DatabaseProbes :
        IF probe = "ok"
        THEN /\ services_status' = [services_status EXCEPT !.database = "healthy"]
             /\ UNCHANGED overall_healthy
        ELSE /\ services_status' = [services_status EXCEPT !.database = "unavailable"]
             /\ overall_healthy' = FALSE
    /\ hcPc' = "embedding"
    /\ UNCHANGED <<hcResponse, hcChecks, cfgVars>>

Mut_HealthEmbedding_unavailable ==
    /\ hcPc = "embedding"
    /\ IF settings.voyage_ai_key # "" /\ settings.voyage_ai_key # "your_voyage_key_here"
       THEN /\ services_status' = [services_status EXCEPT !.embedding = "configured"]
            /\ UNCHANGED overall_healthy
       ELSE /\ services_status' = [services_status EXCEPT !.embedding = "unavailable"]
            /\ overall_healthy' = FALSE
    /\ hcPc' = "respond"
    /\ UNCHANGED <<hcResponse, hcChecks, cfgVars>>

\* Lines 75-80: get_settings() returns the singleton create_app has loaded.
HealthEmbedding ==
    /\ hcPc = "embedding"
    /\ IF settings.voyage_ai_key # "" /\ settings.voyage_ai_key # "your_voyage_key_here"
       THEN /\ services_status' = [services_status EXCEPT !.embedding = "configured"]
            /\ UNCHANGED overall_healthy
       ELSE /\ services_status' = [services_status EXCEPT !.embedding = "not_configured"]
            /\ overall_healthy' = FALSE
    /\ hcPc' = "respond"
    /\ UNCHANGED <<hcResponse, hcChecks, cfgVars>>

\* Lines 83-88.
overall_status(healthy, services) ==
    IF healthy THEN "healthy"
    ELSE IF \A k \in DOMAIN services : services[k] = "unavailable"
    THEN "unhealthy"
    ELSE "degraded"

\* Lines 90-94.
HealthRespond ==
    /\ hcPc = "respond"
    /\ hcResponse' = [http |-> HTTP_200_OK,
                      status |-> overall_status(overall_healthy, services_status),
                      services |-> services_status]
    /\ hcPc' = "done"
    /\ UNCHANGED <<services_status, overall_healthy, hcChecks, cfgVars>>

\* The process once create_app has run: load_settings has returned.
SettingsLoaded ==
    /\ environ \in {e \in Environments : ~SettingsRaises(e) /\ missing(e) = {}}
    /\ settings = environ
    /\ cfgLast = CfgCall("load_settings", "returned", environ)

(***************************************************************************)
(* utils/validators.py: validate_workflow_structure.                       *)
(***************************************************************************)
\* `"." in type`
NodeTypes == {"gmail.send-email", "slack.post", "form.trigger", "webhook"}
has_dot(t) == t \in {"gmail.send-email", "slack.post", "form.trigger"}

NotCalled == [raised |-> FALSE, valid |-> FALSE, error |-> "not called"]
Valid == [raised |-> FALSE, valid |-> TRUE, error |-> "None"]
Invalid(msg) == [raised |-> FALSE, valid |-> FALSE, error |-> msg]
Raised(exc) == [raised |-> TRUE, valid |-> FALSE, error |-> exc]

\* The node loop, lines 63-79, over nodes[i..]; `node_ids` as collected so far.
RECURSIVE structure_nodes_from(_, _, _)
structure_nodes_from(nodes, i, node_ids) ==
    IF i > Len(nodes) THEN Valid
    ELSE IF ~nodes[i].has_id THEN Invalid("Node at index i missing 'id'")
    ELSE IF ~nodes[i].has_type THEN Invalid("Node at index i missing 'type'")
    ELSE IF nodes[i].id \in node_ids THEN Invalid("Duplicate node ID")
    ELSE IF ~has_dot(nodes[i].type) THEN Invalid("Node has invalid type format")
    ELSE structure_nodes_from(nodes, i + 1, node_ids \cup {nodes[i].id})

Mut_structure_connection_any_source(workflow, source_id) ==
    LET connection == workflow.connections[source_id] IN
    IF connection.kind = "nextlist" THEN Raised("TypeError")
    ELSE IF connection.kind = "next" /\ connection.targets[1] \notin NodeIds(workflow)
    THEN Invalid("Connection references unknown target node")
    ELSE Valid

\* The body of the connection loop, lines 87-95, for one source: a `next`
\* that is a list is looked up in the set node_ids as it is, and a list is
\* not hashable.
structure_connection(workflow, source_id) ==
    LET connection == workflow.connections[source_id] IN
    IF source_id \notin NodeIds(workflow)
    THEN Invalid("Connection references unknown source node")
    ELSE IF connection.kind = "nextlist" THEN Raised("TypeError")
    ELSE IF connection.kind = "next" /\ connection.targets[1] \notin NodeIds(workflow)
    THEN Invalid("Connection references unknown target node")
    ELSE Valid

\* The connection loop over the keys in S.  The order of the keys of the
\* dict is not part of a document here; the loop ends at the first key whose
\* body returns or raises.
RECURSIVE structure_connections_over(_, _)
structure_connections_over(workflow, S) ==
    IF S = {} THEN Valid
    ELSE LET source_id == CHOOSE k \in S : TRUE IN
         IF structure_connection(workflow, source_id) # Valid
         THEN structure_connection(workflow, source_id)
         ELSE structure_connections_over(workflow, S \ {source_id})

\* validators.validate_workflow_structure
validate_workflow_structure(workflow) ==
    IF ~workflow.has_nodes THEN Invalid("Missing 'nodes' array")
    ELSE IF ~workflow.has_connections THEN Invalid("Missing 'connections' object")
    ELSE IF ~workflow.nodes_is_list THEN Invalid("'nodes' must be an array")
    ELSE IF Len(workflow.nodes) = 0
    THEN Invalid("Workflow must have at least one node")
    ELSE IF structure_nodes_from(workflow.nodes, 1, {}) # Valid
    THEN structure_nodes_from(workflow.nodes, 1, {})
    ELSE IF ~workflow.connections_is_dict
    THEN Invalid("'connections' must be an object")
    ELSE structure_connections_over(workflow, DOMAIN workflow.connections)

\* Documents of one or two nodes with at most one connection.
NodeLists ==
    LET Ns == {Node(i, t) : i \in {"node1", "node2"}, t \in {"gmail.send-email", "webhook"}}
    IN {<<n>> : n \in Ns} \cup {<<n, k>> : n \in Ns, k \in Ns}

Descriptors ==
    LET Ts == {"node1", "node2", "node9"}
    IN {Desc("id", <<t>>) : t \in Ts}
       \cup {Desc("next", <<t>>) : t \in Ts}
       \cup {Desc("nextlist", <<t, u>>) : t \in Ts, u \in Ts}

ConnectionMaps ==
    {NoConnections} \cup
    {[x \in {source} |-> d] : source \in {"node1", "node9"}, d \in Descriptors}

ValidatorDocs ==
    ReplyDocs \cup {Doc(ns, cs) : ns \in NodeLists, cs \in ConnectionMaps}

ValidIdle ==
    /\ vWorkflow = DocEmptyNodes
    /\ vResult = NotCalled

InitValid ==
    /\ vWorkflow \in ValidatorDocs
    /\ vResult = NotCalled

ValidateStructure ==
    /\ vResult = NotCalled
    /\ vResult' = validate_workflow_structure(vWorkflow)
    /\ UNCHANGED vWorkflow

(***************************************************************************)
(* EmbeddingService.generate_batch_embeddings.                             *)
(*                                                                         *)
(* The vector the provider computes for the text at position j of `texts`  *)
(* is written j, so that the order of a list of vectors can be read off.   *)
(* A provider response raises, or carries the vectors of the chunk it was  *)
(* given, in order: all of them, all but the last, or one too many.        *)
(***************************************************************************)
batch_size == 128

ValidText == [len |-> 12, blank |-> FALSE]
ValidList(n) == [j \in 1..n |-> ValidText]

BatchLengths == {1, 2, 128, 129, 257}
BadPositions(n) == {1, n} \cup ({2} \cap (1..n))

BatchInputs ==
    {<<>>} \cup {ValidList(n) : n \in BatchLengths}
    \cup UNION {{[[ValidList(n) EXCEPT ![j] = t] EXCEPT ![k] = u] :
                    j \in BadPositions(n), k \in BadPositions(n),
                    t \in Texts, u \in Texts} : n \in {2, 129}}

BatchResponseKinds == {"raised", "short", "exact", "long"}

\* What client.embed answers for the chunk texts[first+1 .. first+n].
BatchResponse(kind, first, n) ==
    [raised |-> kind = "raised",
     embeddings |->
        IF kind = "raised" THEN <<>>
        ELSE IF kind = "short" THEN [j \in 1..(n - 1) |-> first + j]
        ELSE IF kind = "exact" THEN [j \in 1..n |-> first + j]
        ELSE [j \in 1..n |-> first + j] \o <<0>>]

\* The positions (from 1) of the texts that the validation loop rejects.
InvalidPositions(texts) == {j \in 1..Len(texts) : text_invalid(texts[j])}

\* The index (from 0) at which the validation loop raises.
Mut_first_invalid_index_last(texts) ==
    (CHOOSE j \in InvalidPositions(texts) :
        \A k \in InvalidPositions(texts) : k <= j) - 1

first_invalid_index(texts) ==
    (CHOOSE j \in InvalidPositions(texts) :
        \A k \in InvalidPositions(texts) : j <= k) - 1

\* Lines 110-117: the ValueError of the validation, or NoBatchError.
NoBatchError == [type |-> "none", msg |-> "none", index |-> 0, attempts |-> 0]

batch_validation_error(texts) ==
    IF Len(texts) = 0
    THEN [type |-> "ValueError", msg |-> "Texts list cannot be empty",
          index |-> 0, attempts |-> 0]
    ELSE IF InvalidPositions(texts) = {} THEN NoBatchError
    ELSE LET i == first_invalid_index(texts) IN
         IF texts[i + 1].len = 0 \/ texts[i + 1].blank
         THEN [type |-> "ValueError", msg |-> "Text at index i is empty",
               index |-> i, attempts |-> 0]
         ELSE [type |-> "ValueError", msg |-> "Text at index i is too long",
               index |-> i, attempts |-> 0]

\* batch = texts[i:i + batch_size]: its length
batch_len(texts, i) ==
    IF Len(texts) - i < batch_size THEN Len(texts) - i ELSE batch_size

\* The try-block's check of one provider response for a chunk of n texts.
Mut_batch_response_ok_nonempty(resp, n) ==
    /\ ~resp.raised
    /\ Len(resp.embeddings) # 0

batch_response_ok(resp, n) ==
    /\ ~resp.raised
    /\ Len(resp.embeddings) # 0
    /\ Len(resp.embeddings) = n

BatchCallEvent(kind, first, n) ==
    [ev |-> "call", kind |-> kind, first |-> first, n |-> n, secs |-> 0]
BatchSleepEvent(secs) ==
    [ev |-> "sleep", kind |-> "none", first |-> 0, n |-> 0, secs |-> secs]

NoBatchResult == <<0>>

BatchIdle ==
    /\ bTexts = <<>>
    /\ bPc = "idle"
    /\ bI = 0
    /\ bAttempt = 0
    /\ all_embeddings = <<>>
    /\ bTrace = <<>>
    /\ bResult = NoBatchResult
    /\ bError = NoBatchError

InitBatch ==
    /\ bTexts \in BatchInputs
    /\ bPc = "start"
    /\ bI = 0
    /\ bAttempt = 0
    /\ all_embeddings = <<>>
    /\ bTrace = <<>>
    /\ bResult = NoBatchResult
    /\ bError = NoBatchError

\* Input validation before the loops: ValueError, without any provider call.
BatchValidate ==
    /\ bPc = "start"
    /\ IF batch_validation_error(bTexts) # NoBatchError
       THEN /\ bPc' = "raised"
            /\ bError' = batch_validation_error(bTexts)
       ELSE /\ bPc' = "loop"
            /\ UNCHANGED bError
    /\ UNCHANGED <<bTexts, bI, bAttempt, all_embeddings, bTrace, bResult>>

\* One iteration of the inner loop for the chunk at offset bI: the provider
\* call, the check of its response, then extend-and-break (moving to the next
\* chunk, or returning after the last one) or the except-branch (sleep or
\* raise).
BatchAttempt ==
    /\ bPc = "loop"
    /\ bAttempt < embed_max_retries
    /\ \E kind \in BatchResponseKinds :
        LET n == batch_len(bTexts, bI)
            resp == BatchResponse(kind, bI, n)
        IN
        IF batch_response_ok(resp, n)
        THEN /\ all_embeddings' = all_embeddings \o resp.embeddings
             /\ bTrace' = Append(bTrace, BatchCallEvent(kind, bI, n))
             /\ bAttempt' = 0
             /\ IF bI + batch_size < Len(bTexts)
                THEN /\ bI' = bI + batch_size
                     /\ UNCHANGED <<bPc, bResult>>
                ELSE /\ bPc' = "returned"
                     /\ bResult' = all_embeddings'
                     /\ UNCHANGED bI
             /\ UNCHANGED bError
        ELSE IF bAttempt < embed_max_retries - 1
        THEN /\ bTrace' = bTrace \o <<BatchCallEvent(kind, bI, n),
                                      BatchSleepEvent(embed_wait_time(bAttempt))>>
             /\ bAttempt' = bAttempt + 1
             /\ UNCHANGED <<bPc, bI, all_embeddings, bResult, bError>>
        ELSE /\ bTrace' = Append(bTrace, BatchCallEvent(kind, bI, n))
             /\ bPc' = "raised"
             /\ bError' = [type |-> "VoyageAIException",
                           msg |-> "Batch embedding failed after n attempts",
                           index |-> 0, attempts |-> embed_max_retries]
             /\ UNCHANGED <<bI, bAttempt, all_embeddings, bResult>>
    /\ UNCHANGED bTexts

(***************************************************************************)
(* utils/validators.py: detect_workflow_cycles.                            *)
(*                                                                         *)
(* The result is the list `cycles`, written as the set of its entries,     *)
(* each with the key of connections the walk started from: the order of    *)
(* the list is the order of the keys of the dict, which a document here    *)
(* does not carry.                                                         *)
(***************************************************************************)
IndexOf(path, x) == CHOOSE i \in 1..Len(path) : path[i] = x /\ \A j \in 1..(i - 1) : path[j] # x

\* path[cycle_start:] + [node_id]
Mut_cycle_slice_whole_path(path, node_id) == Append(path, node_id)

cycle_slice(path, node_id) ==
    Append(SubSeq(path, IndexOf(path, node_id), Len(path)), node_id)

NoCycle == [kind |-> "none", cycle |-> <<>>]
CycleFound(c) == [kind |-> "cycle", cycle |-> c]
CycleRaised == [kind |-> "TypeError", cycle |-> <<>>]

SeqRange(q) == {q[i] : i \in 1..Len(q)}

\* has_cycle_from, lines 193-219.  `visited` holds the elements of `path`.
\* A `next` that is a non-empty list is passed on as node_id, and the test
\* `node_id in visited` of a list against a set raises TypeError; an empty
\* list is falsy and ends the walk.
RECURSIVE has_cycle_from(_, _, _)
has_cycle_from(connections, node_id, path) ==
    IF node_id \in SeqRange(path) THEN CycleFound(cycle_slice(path, node_id))
    ELSE IF node_id \notin DOMAIN connections THEN NoCycle
    ELSE LET connection == connections[node_id] IN
         IF connection.kind = "nextlist"
         THEN IF connection.targets = <<>> THEN NoCycle ELSE CycleRaised
         ELSE has_cycle_from(connections, connection.targets[1],
                             Append(path, node_id))

CyclesNotCalled == [raised |-> "not called", has_cycles |-> FALSE, cycles |-> {}]

\* detect_workflow_cycles: workflow.get("connections", {}), the loop over
\* its keys (a value without .keys() raises AttributeError) and the result.
detect_workflow_cycles(workflow) ==
    IF ~workflow.has_connections
    THEN [raised |-> "no", has_cycles |-> FALSE, cycles |-> {}]
    ELSE IF ~workflow.connections_is_dict
    THEN [raised |-> "AttributeError", has_cycles |-> FALSE, cycles |-> {}]
    ELSE LET connections == workflow.connections
             walk(k) == has_cycle_from(connections, k, <<>>)
             cycles == {[start |-> k, cycle |-> walk(k).cycle] :
                           k \in {k \in DOMAIN connections : walk(k).kind = "cycle"}}
         IN IF \E k \in DOMAIN connections : walk(k).kind = "TypeError"
            THEN [raised |-> "TypeError", has_cycles |-> FALSE, cycles |-> {}]
            ELSE [raised |-> "no", has_cycles |-> cycles # {}, cycles |-> cycles]

CycleNodeIds == {"node1", "node2", "node3"}

CycleNodes ==
    <<Node("node1", "form.trigger"), Node("node2", "slack.post"),
      Node("node3", "gmail.send-email")>>

\* What one key of connections can hold: a target id, an object with a
\* string `next`, or an object with a list `next`.
CycleDescriptors ==
    {Desc("id", <<t>>) : t \in CycleNodeIds}
        \cup {Desc("next", <<t>>) : t \in CycleNodeIds}
        \cup {Desc("nextlist", <<>>), Desc("nextlist", <<"node1">>),
              Desc("nextlist", <<"node2", "node3">>)}

CycleDocs ==
    {DocNoConnectionsKey, DocConnectionsNotDict}
        \cup {Doc(CycleNodes, cs) :
                cs \in UNION {[S -> CycleDescriptors] : S \in SUBSET CycleNodeIds}}

CycleIdle ==
    /\ cyWorkflow = DocEmptyNodes
    /\ cyResult = CyclesNotCalled

InitCycle ==
    /\ cyWorkflow \in CycleDocs
    /\ cyResult = CyclesNotCalled

DetectCycles ==
    /\ cyResult = CyclesNotCalled
    /\ cyResult' = detect_workflow_cycles(cyWorkflow)
    /\ UNCHANGED cyWorkflow

(***************************************************************************)
(* models/base.py: the context manager get_db.                             *)
(*                                                                         *)
(* The with-block ends normally, with an Exception, or with an exception   *)
(* that is not an Exception (KeyboardInterrupt, SystemExit, GeneratorExit, *)
(* asyncio.CancelledError).  Session.commit can raise (it flushes);        *)
(* Session.rollback and Session.close are taken to return.                 *)
(***************************************************************************)
MaxUses == 3

BlockOutcomes == {"normal", "Exception", "BaseException"}

\* Where control goes when the with-block has ended: `db.commit()` after
\* the yield, the `except Exception` branch, or only the finally-branch.
Mut_after_block_no_rollback(outcome) ==
    IF outcome = "normal" THEN "commit" ELSE "close"

after_block(outcome) ==
    IF outcome = "normal" THEN "commit"
    ELSE IF outcome = "Exception" THEN "rollback"
    ELSE "close"

GetDbIdle ==
    /\ gdPc = "idle"
    /\ gdSession = "none"
    /\ gdBlock = "none"
    /\ gdTrace = <<>>
    /\ gdRaised = "none"
    /\ gdLedger = <<>>

\* Lines 82-85: a session is made and handed to the with-block.
GetDbEnter ==
    /\ gdPc \in {"idle", "done"}
    /\ Len(gdLedger) < MaxUses
    /\ gdPc' = "block"
    /\ gdSession' = "open"
    /\ gdBlock' = "none"
    /\ gdTrace' = <<>>
    /\ gdRaised' = "none"
    /\ UNCHANGED gdLedger

\* The with-block runs and ends.
GetDbBlock ==
    /\ gdPc = "block"
    /\ \E outcome \in BlockOutcomes :
        /\ gdBlock' = outcome
        /\ gdPc' = after_block(outcome)
        /\ gdRaised' = IF outcome = "normal" THEN "none" ELSE outcome
    /\ UNCHANGED <<gdSession, gdTrace, gdLedger>>

\* Line 86: db.commit() returns, or raises into the except-branch.
GetDbCommit ==
    /\ gdPc = "commit"
    /\ \E ok \in BOOLEAN :
        IF ok
        THEN /\ gdTrace' = Append(gdTrace, "commit")
             /\ gdPc' = "close"
             /\ UNCHANGED gdRaised
        ELSE /\ gdTrace' = Append(gdTrace, "commit failed")
             /\ gdPc' = "rollback"
             /\ gdRaised' = "Exception"
    /\ UNCHANGED <<gdSession, gdBlock, gdLedger>>

\* Lines 87-89: db.rollback() and `raise`.
GetDbRollback ==
    /\ gdPc = "rollback"
    /\ gdTrace' = Append(gdTrace, "rollback")
    /\ gdPc' = "close"
    /\ UNCHANGED <<gdSession, gdBlock, gdRaised, gdLedger>>

\* Lines 90-91: db.close().
GetDbClose ==
    /\ gdPc = "close"
    /\ gdTrace' = Append(gdTrace, "close")
    /\ gdSession' = "closed"
    /\ gdPc' = "done"
    /\ gdLedger' = Append(gdLedger, [block |-> gdBlock, trace |-> gdTrace',
                                     raised |-> gdRaised])
    /\ UNCHANGED <<gdBlock, gdRaised>>

(***************************************************************************)
(* scripts/load_tools_to_qdrant.py: process_tools and _process_batch.      *)
(*                                                                         *)
(* An operation of the catalog is modelled by whether building its chunk   *)
(* and metadata raises; an operation in a batch is written as its position *)
(* in the catalog.  The provider answers a batch with one vector per text, *)
(* with one vector too few, or fails three times; the upsert returns or    *)
(* raises.                                                                 *)
(***************************************************************************)
ingest_batch_size == 10

Op(builds) == [builds |-> builds]
GoodOps(n) == [i \in 1..n |-> Op(TRUE)]

\* The operations of all tools, in the order the nested loops visit them.
RECURSIVE Operations(_)
Operations(tools) ==
    IF tools = <<>> THEN <<>> ELSE tools[1] \o Operations(Tail(tools))

\* total_operations
total_operations(tools) == Len(Operations(tools))

Catalogs ==
    {<<>>,
     <<GoodOps(1)>>,
     <<GoodOps(2), <<>>, GoodOps(1)>>,
     <<GoodOps(10)>>,
     <<GoodOps(4), GoodOps(7)>>,
     <<GoodOps(12), GoodOps(9)>>,
     <<<<Op(FALSE)>>>>,
     <<GoodOps(3) \o <<Op(FALSE)>>, GoodOps(8)>>,
     <<<<Op(FALSE)>> \o GoodOps(10), <<Op(FALSE)>>>>}

BatchOutcomes == {"embedding failed", "one vector short", "upsert failed", "stored"}

\* len(points) of _process_batch: zip(embeddings, metadata_list) stops at
\* the shorter of the two lists.
points_built(texts, outcome) ==
    IF outcome = "one vector short" THEN Len(texts) - 1 ELSE Len(texts)

\* _process_batch: the counters and the index after one batch.
batch_raises(outcome) == outcome \in {"embedding failed", "upsert failed"}

IngestIdle ==
    /\ igCatalog = <<>>
    /\ igPc = "idle"
    /\ igNext = 1
    /\ batch_texts = <<>>
    /\ processed_count = 0
    /\ failed_count = 0
    /\ igPoints = 0
    /\ igBatches = <<>>

InitIngest ==
    /\ igCatalog \in Catalogs
    /\ igPc = "loop"
    /\ igNext = 1
    /\ batch_texts = <<>>
    /\ processed_count = 0
    /\ failed_count = 0
    /\ igPoints = 0
    /\ igBatches = <<>>

\* One iteration of the inner loop of process_tools, lines 189-230: the
\* chunk and metadata are built and appended, and a full batch is handed to
\* _process_batch (which catches what it raises); an exception while
\* building counts the operation as failed.
IngestOperation ==
    /\ igPc = "loop"
    /\ igNext <= total_operations(igCatalog)
    /\ igNext' = igNext + 1
    /\ IF ~Operations(igCatalog)[igNext].builds
       THEN /\ failed_count' = failed_count + 1
            /\ UNCHANGED <<batch_texts, processed_count, igPoints, igBatches>>
       ELSE LET texts == Append(batch_texts, igNext) IN
            IF Len(texts) >= ingest_batch_size
            THEN \E outcome \in BatchOutcomes :
                    /\ igBatches' = Append(igBatches,
                                           [texts |-> texts, outcome |-> outcome])
                    /\ batch_texts' = <<>>
                    /\ IF batch_raises(outcome)
                       THEN /\ failed_count' = failed_count + Len(texts)
                            /\ UNCHANGED <<processed_count, igPoints>>
                       ELSE /\ processed_count' =
                                   processed_count + points_built(texts, outcome)
                            /\ igPoints' = igPoints + points_built(texts, outcome)
                            /\ UNCHANGED failed_count
            ELSE /\ batch_texts' = texts
                 /\ UNCHANGED <<processed_count, failed_count, igPoints, igBatches>>
    /\ UNCHANGED <<igCatalog, igPc>>

\* The loops are over; lines 232-234 hand over what is left.
IngestFlush ==
    /\ igPc = "loop"
    /\ igNext > total_operations(igCatalog)
    /\ igPc' = "done"
    /\ IF batch_texts # <<>>
       THEN \E outcome \in BatchOutcomes :
               /\ igBatches' = Append(igBatches,
                                      [texts |-> batch_texts, outcome |-> outcome])
               /\ IF batch_raises(outcome)
                  THEN /\ failed_count' = failed_count + Len(batch_texts)
                       /\ UNCHANGED <<processed_count, igPoints>>
                  ELSE /\ processed_count' =
                              processed_count + points_built(batch_texts, outcome)
                       /\ igPoints' = igPoints + points_built(batch_texts, outcome)
                       /\ UNCHANGED failed_count
       ELSE UNCHANGED <<processed_count, failed_count, igPoints, igBatches>>
    /\ UNCHANGED <<igCatalog, igNext, batch_texts>>

LateIdle == CycleIdle /\ GetDbIdle /\ IngestIdle

UtilIdle == CfgIdle /\ HealthIdle /\ ValidIdle /\ BatchIdle /\ LateIdle

coreVars == <<filterVars, embedVars, genVars, searchVars, dbVars, svcVars, routeVars>>

CoreIdle ==
    /\ FilterIdle /\ EmbedIdle /\ GenIdle /\ SearchIdle
    /\ DbInit /\ SvcIdle /\ RoutesIdle

(***************************************************************************)
(* Specifications: one per component, the other components standing idle.  *)
(***************************************************************************)
NextFilter == FilterCall /\ UNCHANGED <<embedVars, genVars, searchVars, dbVars, svcVars, routeVars, utilVars>>

InitSpecFilter == InitFilter /\ EmbedIdle /\ GenIdle /\ SearchIdle /\ DbInit /\ SvcIdle /\ RoutesIdle /\ UtilIdle

SpecFilter == InitSpecFilter /\ [][NextFilter]_vars

NextEmbed ==
    \/ EmbedValidate /\ UNCHANGED <<filterVars, genVars, searchVars, dbVars, svcVars, routeVars, utilVars>>
    \/ EmbedAttempt /\ UNCHANGED <<filterVars, genVars, searchVars, dbVars, svcVars, routeVars, utilVars>>

InitSpecEmbed == InitEmbed /\ FilterIdle /\ GenIdle /\ SearchIdle /\ DbInit /\ SvcIdle /\ RoutesIdle /\ UtilIdle

SpecEmbed == InitSpecEmbed /\ [][NextEmbed]_vars

NextGen ==
    \/ GenBuildMessages /\ UNCHANGED <<filterVars, embedVars, searchVars, dbVars, svcVars, routeVars, utilVars>>
    \/ GenAttempt /\ UNCHANGED <<filterVars, embedVars, searchVars, dbVars, svcVars, routeVars, utilVars>>

InitSpecGen == InitGen /\ FilterIdle /\ EmbedIdle /\ SearchIdle /\ DbInit /\ SvcIdle /\ RoutesIdle /\ UtilIdle

SpecGen == InitSpecGen /\ [][NextGen]_vars

NextSearch ==
    \/ SearchValidate /\ UNCHANGED <<filterVars, embedVars, genVars, dbVars, svcVars, routeVars, utilVars>>
    \/ SearchAttempt /\ UNCHANGED <<filterVars, embedVars, genVars, dbVars, svcVars, routeVars, utilVars>>

InitSpecSearch == InitSearch /\ FilterIdle /\ EmbedIdle /\ GenIdle /\ DbInit /\ SvcIdle /\ RoutesIdle /\ UtilIdle

SpecSearch == InitSpecSearch /\ [][NextSearch]_vars

clientVars == <<filterVars, embedVars, genVars, searchVars>>

ClientsIdle == FilterIdle /\ EmbedIdle /\ GenIdle /\ SearchIdle

NextSvc ==
    \/ SvcCreateConversation /\ UNCHANGED <<clientVars, routeVars, utilVars>>
    \/ SvcSaveMessage /\ UNCHANGED <<clientVars, routeVars, utilVars>>
    \/ SvcSaveWorkflow /\ UNCHANGED <<clientVars, routeVars, utilVars>>
    \/ SvcDeleteConversation /\ UNCHANGED <<clientVars, routeVars, utilVars>>

InitSpecSvc == DbInit /\ SvcIdle /\ ClientsIdle /\ RoutesIdle /\ UtilIdle

SpecSvc == InitSpecSvc /\ [][NextSvc]_vars

\* The same, with update_summary among the calls.
NextSvcAll ==
    \/ SvcCreateConversation /\ UNCHANGED <<clientVars, routeVars, utilVars>>
    \/ SvcSaveMessage /\ UNCHANGED <<clientVars, routeVars, utilVars>>
    \/ SvcSaveWorkflow /\ UNCHANGED <<clientVars, routeVars, utilVars>>
    \/ SvcDeleteConversation /\ UNCHANGED <<clientVars, routeVars, utilVars>>
    \/ SvcUpdateSummary /\ UNCHANGED <<clientVars, routeVars, utilVars>>

InitSpecSvcAll == DbInit /\ SvcIdle /\ ClientsIdle /\ RoutesIdle /\ UtilIdle

SpecSvcAll == InitSpecSvcAll /\ [][NextSvcAll]_vars

NextRoutes ==
    \E r \in Reqs :
        \/ ReqStartCreate(r) /\ UNCHANGED <<clientVars, svcVars, utilVars>>
        \/ ReqStartEdit(r) /\ UNCHANGED <<clientVars, svcVars, utilVars>>
        \/ ReqResolve(r) /\ UNCHANGED <<clientVars, svcVars, utilVars>>
        \/ ReqLoadConversation(r) /\ UNCHANGED <<clientVars, svcVars, utilVars>>
        \/ ReqLoadWorkflow(r) /\ UNCHANGED <<clientVars, svcVars, utilVars>>
        \/ ReqEmbed(r) /\ UNCHANGED <<clientVars, svcVars, utilVars>>
        \/ ReqSearch(r) /\ UNCHANGED <<clientVars, svcVars, utilVars>>
        \/ ReqGenerate(r) /\ UNCHANGED <<clientVars, svcVars, utilVars>>
        \/ ReqSaveMessage(r) /\ UNCHANGED <<clientVars, svcVars, utilVars>>
        \/ ReqWorkflowSelect(r) /\ UNCHANGED <<clientVars, svcVars, utilVars>>
        \/ ReqWorkflowCommit(r) /\ UNCHANGED <<clientVars, svcVars, utilVars>>

InitSpecRoutes ==
    /\ \/ DbInit /\ hSaves = [c \in ConvIds |-> <<>>]
       \/ /\ StoreAfterCreate
          /\ hSaves = [c \in ConvIds |-> IF c = "c1" THEN <<DocChain>> ELSE <<>>]
    /\ req = [r \in Reqs |-> ReqIdle]
    /\ hStarted = 0
    /\ SvcIdle
    /\ ClientsIdle
    /\ UtilIdle

SpecRoutes == InitSpecRoutes /\ [][NextRoutes]_vars

NextSum ==
    \/ SumSaveMessage /\ UNCHANGED <<clientVars, routeVars, utilVars>>
    \/ SumUpdateSummary /\ UNCHANGED <<clientVars, routeVars, utilVars>>

InitSpecSum ==
    /\ StoreWithConversations
    /\ svcLast = Call("none", "none", "none")
    /\ hOps = 0
    /\ hSaveCount = [c \in ConvIds |-> 0]
    /\ hLastSaved = [c \in ConvIds |-> DocEmptyNodes]
    /\ hDeleted = {}
    /\ hSince = [c \in ConvIds |-> [summarized |-> FALSE,
                                    since |-> IF c = "c2" THEN 1 ELSE 0]]
    /\ ClientsIdle
    /\ RoutesIdle
    /\ UtilIdle

SpecSum == InitSpecSum /\ [][NextSum]_vars

NextCfg ==
    \/ load_settings /\ UNCHANGED <<coreVars, healthVars, validVars, batchVars, lateVars>>
    \/ get_settings /\ UNCHANGED <<coreVars, healthVars, validVars, batchVars, lateVars>>

InitSpecCfg == InitCfg /\ CoreIdle /\ HealthIdle /\ ValidIdle /\ BatchIdle /\ LateIdle

SpecCfg == InitSpecCfg /\ [][NextCfg]_vars

NextHealth ==
    \/ HealthStart /\ UNCHANGED <<coreVars, validVars, batchVars, lateVars>>
    \/ HealthQdrant /\ UNCHANGED <<coreVars, validVars, batchVars, lateVars>>
    \/ HealthDatabase /\ UNCHANGED <<coreVars, validVars, batchVars, lateVars>>
    \/ HealthEmbedding /\ UNCHANGED <<coreVars, validVars, batchVars, lateVars>>
    \/ HealthRespond /\ UNCHANGED <<coreVars, validVars, batchVars, lateVars>>

InitSpecHealth == SettingsLoaded /\ HealthIdle /\ CoreIdle /\ ValidIdle /\ BatchIdle /\ LateIdle

SpecHealth == InitSpecHealth /\ [][NextHealth]_vars

NextValid == ValidateStructure /\ UNCHANGED <<coreVars, cfgVars, healthVars, batchVars, lateVars>>

InitSpecValid == InitValid /\ CoreIdle /\ CfgIdle /\ HealthIdle /\ BatchIdle /\ LateIdle

SpecValid == InitSpecValid /\ [][NextValid]_vars

\* One call of the embedding client: generate_embedding or
\* generate_batch_embeddings.
NextEmbedClient ==
    \/ EmbedValidate /\ UNCHANGED <<filterVars, genVars, searchVars, dbVars, svcVars, routeVars, utilVars>>
    \/ EmbedAttempt /\ UNCHANGED <<filterVars, genVars, searchVars, dbVars, svcVars, routeVars, utilVars>>
    \/ BatchValidate /\ UNCHANGED <<coreVars, cfgVars, healthVars, validVars, lateVars>>
    \/ BatchAttempt /\ UNCHANGED <<coreVars, cfgVars, healthVars, validVars, lateVars>>

InitSpecEmbedClient ==
    /\ FilterIdle /\ GenIdle /\ SearchIdle /\ DbInit /\ SvcIdle /\ RoutesIdle
    /\ CfgIdle /\ HealthIdle /\ ValidIdle /\ LateIdle
    /\ \/ InitEmbed /\ BatchIdle
       \/ EmbedIdle /\ InitBatch

SpecEmbedClient == InitSpecEmbedClient /\ [][NextEmbedClient]_vars

earlyVars == <<coreVars, cfgVars, healthVars, validVars, batchVars>>

EarlyIdle == CoreIdle /\ CfgIdle /\ HealthIdle /\ ValidIdle /\ BatchIdle

NextCycle == DetectCycles /\ UNCHANGED <<earlyVars, getDbVars, ingestVars>>

InitSpecCycle == InitCycle /\ EarlyIdle /\ GetDbIdle /\ IngestIdle

SpecCycle == InitSpecCycle /\ [][NextCycle]_vars

NextGetDb ==
    \/ GetDbEnter /\ UNCHANGED <<earlyVars, cycleVars, ingestVars>>
    \/ GetDbBlock /\ UNCHANGED <<earlyVars, cycleVars, ingestVars>>
    \/ GetDbCommit /\ UNCHANGED <<earlyVars, cycleVars, ingestVars>>
    \/ GetDbRollback /\ UNCHANGED <<earlyVars, cycleVars, ingestVars>>
    \/ GetDbClose /\ UNCHANGED <<earlyVars, cycleVars, ingestVars>>

InitSpecGetDb == GetDbIdle /\ EarlyIdle /\ CycleIdle /\ IngestIdle

SpecGetDb == InitSpecGetDb /\ [][NextGetDb]_vars

NextIngest ==
    \/ IngestOperation /\ UNCHANGED <<earlyVars, cycleVars, getDbVars>>
    \/ IngestFlush /\ UNCHANGED <<earlyVars, cycleVars, getDbVars>>

InitSpecIngest == InitIngest /\ EarlyIdle /\ CycleIdle /\ GetDbIdle

SpecIngest == InitSpecIngest /\ [][NextIngest]_vars

NextApi ==
    \E r \in ApiReqs :
        \/ ReqStartCreate(r) /\ UNCHANGED <<clientVars, svcVars, utilVars>>
        \/ ReqStartEdit(r) /\ UNCHANGED <<clientVars, svcVars, utilVars>>
        \/ ReqStartGet(r) /\ UNCHANGED <<clientVars, svcVars, utilVars>>
        \/ ReqStartDelete(r) /\ UNCHANGED <<clientVars, svcVars, utilVars>>
        \/ ReqRejectInvalid(r) /\ UNCHANGED <<clientVars, svcVars, utilVars>>
        \/ ReqResolve(r) /\ UNCHANGED <<clientVars, svcVars, utilVars>>
        \/ ReqLoadConversation(r) /\ UNCHANGED <<clientVars, svcVars, utilVars>>
        \/ ReqLoadWorkflow(r) /\ UNCHANGED <<clientVars, svcVars, utilVars>>
        \/ ReqEmbed(r) /\ UNCHANGED <<clientVars, svcVars, utilVars>>
        \/ ReqSearch(r) /\ UNCHANGED <<clientVars, svcVars, utilVars>>
        \/ ReqGenerate(r) /\ UNCHANGED <<clientVars, svcVars, utilVars>>
        \/ ReqSaveMessage(r) /\ UNCHANGED <<clientVars, svcVars, utilVars>>
        \/ ReqWorkflowSelect(r) /\ UNCHANGED <<clientVars, svcVars, utilVars>>
        \/ ReqWorkflowCommit(r) /\ UNCHANGED <<clientVars, svcVars, utilVars>>
        \/ ReqGet(r) /\ UNCHANGED <<clientVars, svcVars, utilVars>>
        \/ ReqDelete(r) /\ UNCHANGED <<clientVars, svcVars, utilVars>>

InitSpecApi ==
    /\ \/ DbInit /\ hSaves = [c \in ConvIds |-> <<>>]
       \/ /\ StoreAfterCreate
          /\ hSaves = [c \in ConvIds |-> IF c = "c1" THEN <<DocChain>> ELSE <<>>]
    /\ req = [r \in Reqs |-> ReqIdle]
    /\ hStarted = 0
    /\ SvcIdle
    /\ ClientsIdle
    /\ UtilIdle

SpecApi == InitSpecApi /\ [][NextApi]_vars

(***************************************************************************)
(* Properties.                                                             *)
(***************************************************************************)

(***************************************************************************)
(* The classification policy's notion of ambiguity (the policy text and    *)
(* test_filter_by_similarity_threshold_ambiguous): at least two results,   *)
(* the top two closer than the ambiguity threshold, and more than one      *)
(* distinct tool slug among the top three.                                 *)
(***************************************************************************)
Top3(results) == SubSeq(results, 1, Min(3, Len(results)))

SlugsOf(rs) == {rs[i].tool_slug : i \in 1..Len(rs)}

SlugList(rs) == [i \in 1..Len(rs) |-> rs[i].tool_slug]

IsAmbiguous(results) ==
    /\ Len(results) >= 2
    /\ results[1].score >= similarity_threshold_low
    /\ results[1].score - results[2].score < ambiguity_threshold
    /\ Cardinality(SlugsOf(Top3(results))) > 1

\* C1: a list with top score >= low threshold, top two scores closer than the
\* ambiguity threshold and more than one distinct slug among the top 3 is
\* classified 'ambiguous', with exactly the top 3 results and their slugs as
\* 'suggestions'.
C1_AmbiguousClassified ==
    (fCalled /\ IsAmbiguous(fResults)) =>
        /\ fOut.status = "ambiguous"
        /\ fOut.results = Top3(fResults)
        /\ "suggestions" \in DOMAIN fOut
        /\ fOut.suggestions = SlugList(Top3(fResults))

\* C2: a non-empty list whose top score is >= the low threshold and that is
\* not ambiguous is classified 'confident' with all results in order,
\* top_score = results[0].score, and confidence_level 'high' iff
\* top_score >= the high threshold, else 'medium'.
C2_ConfidentClassified ==
    (fCalled /\ Len(fResults) > 0
        /\ fResults[1].score >= similarity_threshold_low
        /\ ~IsAmbiguous(fResults)) =>
        /\ fOut.status = "confident"
        /\ fOut.results = fResults
        /\ fOut.top_score = fResults[1].score
        /\ fOut.confidence_level \in {"high", "medium"}
        /\ (fOut.confidence_level = "high"
                <=> fResults[1].score >= similarity_threshold_high)

\* The top entries share one slug and score within the ambiguity gap, with the
\* top score exactly at the high threshold: classified 'confident'/'high'.
C2_Witness ==
    /\ fCalled
    /\ Len(fResults) = 3
    /\ Cardinality(SlugsOf(fResults)) = 1
    /\ fResults[1].score = similarity_threshold_high
    /\ fResults[1].score - fResults[2].score < ambiguity_threshold
    /\ fOut.status = "confident"
    /\ fOut.confidence_level = "high"

\* C3: the call returns 'no_match' with empty results and a message exactly
\* when the list is empty or its first score is strictly below the low
\* threshold; a top score equal to the low threshold is not 'no_match'.
C3_NoMatchClassified ==
    fCalled =>
        /\ (fOut.status = "no_match"
                <=> (Len(fResults) = 0
                        \/ fResults[1].score < similarity_threshold_low))
        /\ (fOut.status = "no_match" =>
                /\ fOut.results = <<>>
                /\ "message" \in DOMAIN fOut)

\* A non-empty list with top score just below the low threshold was classified.
C3_Witness ==
    /\ fCalled
    /\ Len(fResults) > 0
    /\ fResults[1].score = similarity_threshold_low - 1
    /\ fOut.status = "no_match"

(***************************************************************************)
(* generate_embedding: what the trace of provider calls and sleeps shows.  *)
(***************************************************************************)
CallsIn(tr) == {i \in 1..Len(tr) : tr[i].ev = "call"}
SleepsIn(tr) == {i \in 1..Len(tr) : tr[i].ev = "sleep"}

RECURSIVE SleepSecs(_)
SleepSecs(tr) ==
    IF tr = <<>> THEN <<>>
    ELSE IF tr[1].ev = "sleep" THEN <<tr[1].secs>> \o SleepSecs(Tail(tr))
    ELSE SleepSecs(Tail(tr))

IsPrefix(a, b) == Len(a) <= Len(b) /\ a = SubSeq(b, 1, Len(a))

\* C7: on valid text the provider is called at most 3 times; the call returns
\* the first vector of the first response that is non-empty and of the
\* configured dimension; every sleep directly follows a failed call and is
\* followed by the next call, the sleeps are 1s then 2s, none follows the
\* third failure; after 3 failed calls a VoyageAIException citing 3 attempts
\* is raised and no value is returned.
C7_EmbedRetry ==
    ~text_invalid(eText) =>
        /\ Cardinality(CallsIn(eTrace)) <= 3
        /\ \A i \in SleepsIn(eTrace) :
              /\ i > 1
              /\ eTrace[i - 1].ev = "call"
              /\ ~embed_response_ok(eTrace[i - 1].resp)
              /\ (i < Len(eTrace) => eTrace[i + 1].ev = "call")
        /\ IsPrefix(SleepSecs(eTrace), <<1, 2>>)
        /\ (ePc = "returned" =>
              /\ eTrace[Len(eTrace)].ev = "call"
              /\ embed_response_ok(eTrace[Len(eTrace)].resp)
              /\ eResult = eTrace[Len(eTrace)].resp.embeddings[1]
              /\ eResult.dim = embedding_dimension
              /\ \A i \in CallsIn(eTrace) :
                    i < Len(eTrace) => ~embed_response_ok(eTrace[i].resp)
              /\ SleepSecs(eTrace) =
                    SubSeq(<<1, 2>>, 1, Cardinality(CallsIn(eTrace)) - 1))
        /\ (ePc = "raised" =>
              /\ eError = [type |-> "VoyageAIException", attempts |-> 3]
              /\ Cardinality(CallsIn(eTrace)) = 3
              /\ \A i \in CallsIn(eTrace) : ~embed_response_ok(eTrace[i].resp)
              /\ eTrace[Len(eTrace)].ev = "call"
              /\ SleepSecs(eTrace) = <<1, 2>>
              /\ eResult = NoVector)
        /\ (ePc = "loop" =>
              /\ eResult = NoVector
              /\ \A i \in CallsIn(eTrace) : ~embed_response_ok(eTrace[i].resp))

\* Two failed calls, then a vector on the third: three calls, sleeps 1s and 2s.
C7_Witness ==
    /\ ePc = "returned"
    /\ Cardinality(CallsIn(eTrace)) = 3
    /\ SleepSecs(eTrace) = <<1, 2>>
    /\ eResult.dim = embedding_dimension

(***************************************************************************)
(* generate_workflow: what the record of model invocations shows.          *)
(***************************************************************************)
LastCall == gCalls[Len(gCalls)]

HistoryPart(messages) == SubSeq(messages, 1, Len(messages) - 1)

\* C8: the model is invoked at most 3 times; after a JSON-parse failure on
\* attempt 1 or 2 the next invocation sends the same messages with only the
\* last message's content replaced by the stricter prompt (the history
\* messages unchanged); a JSON-parse failure on attempt 3 raises a
\* BedrockException citing 3 attempts and carrying the first 200 characters
\* of that reply; a reply that parses and validates on attempt k is returned
\* after exactly k invocations.
C8_GenerateRetry ==
    /\ Len(gCalls) <= 3
    /\ \A i \in 1..Len(gCalls) :
          /\ HistoryPart(gCalls[i].messages) = gHistory
          /\ Len(gCalls[i].messages) = Len(gHistory) + 1
          /\ (attempt_result(gCalls[i].out) = "json" /\ i <= 2) =>
                /\ (i = Len(gCalls) =>
                        /\ gPc = "loop"
                        /\ gMessages[Len(gMessages)].content = StricterPrompt(gQuery)
                        /\ HistoryPart(gMessages) = gHistory)
                /\ (i < Len(gCalls) =>
                        /\ gCalls[i + 1].messages[Len(gHistory) + 1].content
                              = StricterPrompt(gQuery)
                        /\ gCalls[i + 1].messages[Len(gHistory) + 1].role = "user")
          /\ (attempt_result(gCalls[i].out) = "json" /\ i = 3) =>
                /\ gPc = "raised"
                /\ gError.type = "BedrockException"
                /\ gError.template = "Failed to parse valid JSON"
                /\ gError.attempts = 3
                /\ gError.excerpt =
                      SubSeq(gCalls[i].out.reply.chars, 1,
                             Min(200, Len(gCalls[i].out.reply.chars)))
          /\ (attempt_result(gCalls[i].out) = "ok") =>
                /\ i = Len(gCalls)
                /\ gPc = "returned"
                /\ gResult = gCalls[i].out.reply.doc
                /\ gAttempt + 1 = i
    /\ (gPc = "returned" =>
          /\ Len(gCalls) >= 1
          /\ attempt_result(LastCall.out) = "ok")

\* Two unparsable replies, the third longer than 200 characters and also
\* unparsable, with conversation history present: raised after 3 invocations.
C8_Witness ==
    /\ gPc = "raised"
    /\ Len(gHistory) > 0
    /\ Len(gCalls) = 3
    /\ \A i \in 1..3 : attempt_result(gCalls[i].out) = "json"
    /\ Len(LastCall.out.reply.chars) > 200
    /\ Len(gError.excerpt) = 200

(***************************************************************************)
(* search_tools: what the trace of index queries and sleeps shows.         *)
(***************************************************************************)
QueriesIn(tr) == {i \in 1..Len(tr) : tr[i].ev = "query"}

\* C9: with an embedding of the configured dimension the index is queried at
\* most 2 times, the only sleep is 1 second between a failed first attempt
\* and the second attempt, the call returns the parsed hits of the first
\* successful attempt, and after two failed attempts it raises a
\* QdrantException citing 2 attempts; with any other dimension it raises
\* ValueError without querying the index.
C9_SearchRetry ==
    /\ (sEmbedding # 1024 /\ sPc # "start") =>
          /\ sPc = "raised"
          /\ sError.type = "ValueError"
          /\ sTrace = <<>>
    /\ (sEmbedding = 1024) =>
          /\ Cardinality(QueriesIn(sTrace)) <= 2
          /\ \A i \in 1..Len(sTrace) :
                sTrace[i].ev = "sleep" =>
                  /\ i = 2
                  /\ sTrace[i].secs = 1
                  /\ ~search_response_ok(sTrace[1].resp)
                  /\ (Len(sTrace) > 2 => sTrace[3].ev = "query")
          /\ (sPc = "returned" =>
                /\ search_response_ok(sTrace[Len(sTrace)].resp)
                /\ sResult = parse_hits(sTrace[Len(sTrace)].resp.hits)
                /\ (Len(sTrace) > 1 =>
                      /\ ~search_response_ok(sTrace[1].resp)
                      /\ sTrace = <<sTrace[1], SearchSleepEvent(1),
                                    sTrace[3]>>))
          /\ (sPc = "raised" =>
                /\ sError = [type |-> "QdrantException", attempts |-> 2]
                /\ Cardinality(QueriesIn(sTrace)) = 2
                /\ Len(sTrace) = 3
                /\ sTrace[2] = SearchSleepEvent(1)
                /\ \A i \in QueriesIn(sTrace) :
                      ~search_response_ok(sTrace[i].resp)
                /\ sResult = <<>>)
          /\ (sPc = "loop" =>
                \A i \in QueriesIn(sTrace) :
                    ~search_response_ok(sTrace[i].resp))

\* The first query failed, the second returned two hits after a 1s sleep.
C9_Witness ==
    /\ sPc = "returned"
    /\ Len(sTrace) = 3
    /\ sTrace[1].resp.raised
    /\ sTrace[2] = SearchSleepEvent(1)
    /\ Len(sResult) = 2
    /\ sResult[2].id = "p2"
    /\ sResult[2].auth_required

(***************************************************************************)
(* ConversationService: workflow versions and soft delete.                 *)
(***************************************************************************)
WfRowsOf(c) == {row \in dbWfs : row.conversation_id = c}

\* C4: after n save_workflow calls on a conversation there is no
\* WorkflowState if n = 0 and otherwise exactly one, whose version is n (1
\* after the first call, one more after every later call) and whose document
\* is the one last saved.
C4_VersionCountsSaves ==
    \A c \in ConvIds :
        /\ Cardinality(WfRowsOf(c)) <= 1
        /\ (hSaveCount[c] = 0 <=> WfRowsOf(c) = {})
        /\ \A row \in WfRowsOf(c) :
              /\ row.version = hSaveCount[c]
              /\ row.workflow_json = hLastSaved[c]
              /\ get_current_workflow(dbWfs, c) = hLastSaved[c]

\* Three saves on one conversation, the last with a different document than
\* the one before.
C4_Witness ==
    \E c \in ConvIds :
        /\ hSaveCount[c] = 3
        /\ svcLast = Call("save_workflow", c, "workflow_state")
        /\ \E row \in dbWfs :
              /\ row.conversation_id = c
              /\ row.version = 3
              /\ row.workflow_json = DocChain
              /\ row.updated_at > row.created_at

ConvRowOf(convs, c) == CHOOSE row \in convs : row.id = c

\* The step is a delete_conversation call on c that returned True.
DeletedNow(c) ==
    /\ hOps' = hOps + 1
    /\ svcLast' = Call("delete_conversation", c, "True")

\* C10: a delete_conversation(id) that returns True leaves every message and
\* every WorkflowState unchanged and changes the conversation row only in
\* is_deleted and updated_at (all other rows not at all); from then on
\* get_conversation(id) is absent, the row still exists, and a further
\* delete_conversation(id) returns False.
C10_SoftDelete ==
    /\ [][\A c \in ConvIds :
            /\ DeletedNow(c) =>
                  /\ get_conversation(dbConvs, c) # NoConv
                  /\ dbMsgs' = dbMsgs
                  /\ dbWfs' = dbWfs
                  /\ {row.id : row \in dbConvs'} = {row.id : row \in dbConvs}
                  /\ \A row \in dbConvs : row.id # c => row \in dbConvs'
                  /\ \E row \in dbConvs' :
                        /\ row.id = c
                        /\ row.is_deleted = TRUE
                        /\ [row EXCEPT !.is_deleted = FALSE,
                                       !.updated_at =
                                           ConvRowOf(dbConvs, c).updated_at]
                              = ConvRowOf(dbConvs, c)
            /\ (c \in hDeleted /\ hOps' = hOps + 1
                    /\ svcLast'.op = "delete_conversation"
                    /\ svcLast'.conv = c)
                  => svcLast'.ret = "False"]_vars
    /\ [](\A c \in hDeleted :
            /\ get_conversation(dbConvs, c) = NoConv
            /\ \E row \in dbConvs : row.id = c)

\* A conversation with a message and a workflow was deleted, and a second
\* delete of it has just returned False.
C10_Witness ==
    \E c \in hDeleted :
        /\ svcLast = Call("delete_conversation", c, "False")
        /\ \E i \in 1..Len(dbMsgs) : dbMsgs[i].conversation_id = c
        /\ \E row \in dbWfs : row.conversation_id = c

(***************************************************************************)
(* The handlers: what reaches workflow_states.                             *)
(***************************************************************************)
\* The workflow-structure invariants: at least one node, unique node ids,
\* every connection source is a node, every successor named is a node.
WellFormedWorkflow(doc) ==
    /\ doc.has_nodes /\ doc.nodes_is_list /\ Len(doc.nodes) >= 1
    /\ \A i \in 1..Len(doc.nodes) : doc.nodes[i].has_id
    /\ \A i, j \in 1..Len(doc.nodes) :
          doc.nodes[i].id = doc.nodes[j].id => i = j
    /\ doc.has_connections /\ doc.connections_is_dict
    /\ \A source \in DOMAIN doc.connections :
          /\ source \in NodeIds(doc)
          /\ \A k \in 1..Len(doc.connections[source].targets) :
                doc.connections[source].targets[k] \in NodeIds(doc)

\* C5: when two edits of one conversation have loaded the same current
\* workflow and both have committed (and nothing else was saved meanwhile),
\* both were answered 200, the stored document is that of the later commit,
\* and the version is 2 above the one both loaded.
C5_OverlappingEditsCountTwice ==
    \A r1, r2 \in Reqs :
        (/\ r1 # r2
         /\ req[r1].kind = "edit" /\ req[r2].kind = "edit"
         /\ req[r1].conv = req[r2].conv
         /\ req[r1].pc = "done" /\ req[r2].pc = "done"
         /\ req[r1].status = HTTP_200_OK /\ req[r2].status = HTTP_200_OK
         /\ req[r1].seen = req[r2].seen
         /\ Len(hSaves[req[r1].conv]) = req[r1].seen + 2)
        => LET c == req[r1].conv
               row == wf_select(dbWfs, c)
           IN /\ req[r1].cur = req[r2].cur
              /\ row.workflow_json = hSaves[c][Len(hSaves[c])]
              /\ row.version = req[r1].base + 2

\* C6: every document a handler has written to workflow_states satisfies
\* the workflow-structure invariants, successor targets included.
C6_StoredWorkflowsWellFormed ==
    \A row \in dbWfs : WellFormedWorkflow(row.workflow_json)

(***************************************************************************)
(* ConversationService: the reads.                                         *)
(***************************************************************************)
\* C11: once delete_conversation(id) has returned True, get_conversation,
\* get_conversation_history, get_current_workflow and
\* get_messages_for_summarization on that id return absent or empty.
C11_DeletedExcludedFromReads ==
    \A c \in hDeleted :
        /\ get_conversation(dbConvs, c) = NoConv
        /\ \A n \in LastNs :
              /\ get_conversation_history(dbConvs, dbMsgs, c, n) = NoHistory
              /\ get_messages_for_summarization(dbMsgs, c, n) = <<>>
        /\ get_current_workflow(dbWfs, c) = NoWf.workflow_json

\* The messages of a conversation in the order they were saved.
SavedMessages(c) == SelectSeq(dbMsgs, LAMBDA row : row.conversation_id = c)

\* C20: on an existing conversation with T messages,
\* get_conversation_history(id, last_n) reports total_messages = T, has_more
\* = (T > last_n) and exactly the min(T, last_n) most recent messages,
\* oldest first; on an absent or soft-deleted conversation it returns absent.
C20_HistoryWindow ==
    \A c \in ConvIds, n \in LastNs :
        LET h == get_conversation_history(dbConvs, dbMsgs, c, n)
            all == SavedMessages(c)
            T == Len(all)
        IN IF \E row \in dbConvs : row.id = c /\ ~row.is_deleted
           THEN /\ h.found
                /\ h.total_messages = T
                /\ Len(h.messages) = Min(T, n)
                /\ h.messages = SubSeq(all, T - Min(T, n) + 1, T)
                /\ \A i, j \in 1..Len(h.messages) :
                      i < j => h.messages[i].timestamp < h.messages[j].timestamp
                /\ h.has_more = (T > n)
           ELSE h = NoHistory

\* A conversation with two messages, asked for a window of one and of two,
\* while another conversation is soft-deleted and yields no history.
C20_Witness ==
    /\ \E c \in ConvIds :
        /\ Len(SavedMessages(c)) = 2
        /\ get_conversation_history(dbConvs, dbMsgs, c, 1).has_more
        /\ get_conversation_history(dbConvs, dbMsgs, c, 1).messages
              = <<SavedMessages(c)[2]>>
        /\ ~get_conversation_history(dbConvs, dbMsgs, c, 2).has_more
    /\ \E c \in hDeleted :
        get_conversation_history(dbConvs, dbMsgs, c, 5) = NoHistory


(***************************************************************************)
(* The handlers: failures of the generation step.                          *)
(***************************************************************************)
\* A create request whose generation step raised.
GenerationFailedIn(q) ==
    q.kind = "create" /\ q.pc = "done" /\ q.error # NoGenError

\* C12: in create, a generation error whose text carries "Rate limit" or
\* "ThrottlingException" is answered 429 and every other generation error
\* (the reply unparsable on all three attempts among them) 503; the step
\* that answers leaves messages and workflows as they were, and the request
\* has stored none before it.
C12_GenerationFailureStatus ==
    /\ [](\A r \in Reqs :
            GenerationFailedIn(req[r]) =>
                /\ req[r].status =
                      IF \/ req[r].error.cause = "Rate limit exceeded"
                         \/ req[r].error.has_throttling
                      THEN 429 ELSE 503
                /\ req[r].error.cause = "JSONDecodeError" => req[r].status = 503
                /\ req[r].saved_messages = 0
                /\ ~req[r].saved_workflow)
    /\ [][\A r \in Reqs :
            (req[r].pc = "generate" /\ GenerationFailedIn(req'[r])) =>
                /\ dbMsgs' = dbMsgs
                /\ dbWfs' = dbWfs
                /\ ~\E i \in 1..Len(dbMsgs) :
                       /\ dbMsgs[i].conversation_id = req[r].conv
                       /\ req[r].created_conversation]_vars

\* Three unparsable replies answered 503, nothing stored for the new
\* conversation.
C12_Witness ==
    \E r \in Reqs :
        /\ GenerationFailedIn(req[r])
        /\ req[r].error = ParseError(Chars(13))
        /\ req[r].error.attempts = 3
        /\ req[r].status = 503
        /\ req[r].created_conversation
        /\ SavedMessages(req[r].conv) = <<>>
        /\ WfRowsOf(req[r].conv) = {}

\* C13: in create, a reply that parses but fails _validate_workflow is
\* answered 500.  (generate_workflow catches the ValueError, retries, and
\* raises BedrockException; the handler answers that with 503.)
C13_ValidationFailureStatus ==
    \A r \in Reqs :
        (GenerationFailedIn(req[r]) /\ req[r].error.cause = "ValueError") =>
            req[r].status = 500

(***************************************************************************)
(* The handlers: what a failure response looks like.                       *)
(***************************************************************************)
FailureStatuses == {400, 404, 429, 500, 503}

FailedIn(q) == q.pc = "done" /\ q.status \in FailureStatuses

\* C14: the body of every failure response (400, 404, 429, 500, 503) is an
\* object {error, message, details}; an embedding failure is a 503 whose
\* `message` holds "Embedding service unavailable".
C14_FailureBodyShape ==
    \A r \in Reqs :
        FailedIn(req[r]) =>
            /\ req[r].body.shape = "error_message_details"
            /\ (req[r].calls # <<>> /\
                req[r].calls[Len(req[r].calls)] = "generate_embedding") =>
                   req[r].body.message = "Embedding service unavailable"

\* C15: the body of a 500 carries a fixed message and never the text of the
\* exception that caused it.
C15_InternalErrorGeneric ==
    \A r \in Reqs :
        (req[r].pc = "done" /\ req[r].status = 500) => ~req[r].body.exc_text

\* A create or edit request answered after a write of its persist step
\* raised.
PersistFailed(q) ==
    /\ q.kind \in {"create", "edit"}
    /\ q.pc = "done"
    /\ q.body = persist_failure_body(q)

\* C16: a request whose persist step failed is answered 500 and its session
\* is rolled back before it is closed: Session.rollback() has been called on
\* it, or at the least nothing the step had written is left stored.
C16_PersistFailureRolledBack ==
    \A r \in Reqs :
        PersistFailed(req[r]) =>
            /\ req[r].status = 500
            /\ req[r].session = "closed"
            /\ \/ req[r].rollbacks >= 1
               \/ req[r].saved_messages = 0

(***************************************************************************)
(* The handlers: what they store.                                          *)
(***************************************************************************)
\* A create request answered after the filter found no tool above the
\* threshold.
NoMatchAnswered(q) ==
    q.kind = "create" /\ q.pc = "done" /\ q.outcome = "no_match"

\* C17: a create classified no_match stores two messages, the user's with an
\* empty tool list and empty scores and then the assistant's with the
\* clarification text; it never calls generate_workflow, no step of it
\* touches workflow_states, and it answers 200 with status no_match, no
\* workflow, confidence 0.0 and a message that is not empty.
C17_NoMatchAnswer ==
    /\ [](\A r \in Reqs :
            NoMatchAnswered(req[r]) =>
                LET q == req[r]
                    n == Len(dbMsgs)
                IN /\ q.status = 200
                   /\ q.body.shape = "WorkflowResponse"
                   /\ q.body.status = "no_match"
                   /\ ~q.body.has_workflow
                   /\ q.body.confidence = 0
                   /\ q.body.message # ""
                   /\ q.calls = <<"generate_embedding", "search_tools">>
                   /\ q.saved_messages = 2
                   /\ ~q.saved_workflow
                   /\ n >= 2
                   /\ dbMsgs[n - 1].conversation_id = q.conv
                   /\ dbMsgs[n - 1].role = "user"
                   /\ dbMsgs[n - 1].content = "query"
                   /\ dbMsgs[n - 1].tools_retrieved = JsonValue({})
                   /\ dbMsgs[n - 1].similarity_scores = JsonValue({})
                   /\ dbMsgs[n].conversation_id = q.conv
                   /\ dbMsgs[n].role = "assistant"
                   /\ dbMsgs[n].content = q.body.message)
    /\ [][\A r \in Reqs :
            (req[r].kind = "create" /\ req[r].outcome = "no_match") =>
                dbWfs' = dbWfs]_vars

\* A first request without conversation_id, answered no_match: the new
\* conversation holds its two messages and no workflow.
C17_Witness ==
    \E r \in Reqs :
        /\ NoMatchAnswered(req[r])
        /\ req[r].created_conversation
        /\ Len(SavedMessages(req[r].conv)) = 2
        /\ SavedMessages(req[r].conv)[1].role = "user"
        /\ SavedMessages(req[r].conv)[2].role = "assistant"
        /\ WfRowsOf(req[r].conv) = {}
        /\ req[r].status = 200

\* No row of this id, or one that is soft-deleted.
AbsentOrDeleted(c) ==
    \A row \in dbConvs : row.id = c => row.is_deleted

\* C18: an edit on a conversation that is absent or soft-deleted, or that
\* has no workflow, and a create naming such a conversation, are answered
\* 404 at the step that finds it (the missing workflow with a text of its
\* own); no remote service has been called by then and the step leaves the
\* database as it was.
C18_NotFoundBeforeAnyCall ==
    /\ [](\A r \in Reqs :
            req[r].pc \in {"resolve", "load", "load_workflow"} =>
                /\ req[r].calls = <<>>
                /\ req[r].saved_messages = 0
                /\ ~req[r].saved_workflow)
    /\ [][\A r \in Reqs :
            /\ (/\ req[r].pc \in {"resolve", "load"}
                /\ req[r].arg # "none"
                /\ AbsentOrDeleted(req[r].arg)) =>
                   /\ req'[r].pc = "done"
                   /\ req'[r].status = 404
                   /\ req'[r].body.text = "Conversation not found"
                   /\ req'[r].calls = <<>>
                   /\ <<dbConvs, dbMsgs, dbWfs>>' = <<dbConvs, dbMsgs, dbWfs>>
            /\ (/\ req[r].pc = "load_workflow"
                /\ WfRowsOf(req[r].arg) = {}) =>
                   /\ req'[r].pc = "done"
                   /\ req'[r].status = 404
                   /\ req'[r].body.text # "Conversation not found"
                   /\ req'[r].body.text # ""
                   /\ req'[r].calls = <<>>
                   /\ <<dbConvs, dbMsgs, dbWfs>>' = <<dbConvs, dbMsgs, dbWfs>>]_vars

\* An edit of a conversation that was deleted after its workflow was stored.
C18_Witness ==
    \E r \in Reqs :
        /\ req[r].kind = "edit"
        /\ req[r].pc = "done"
        /\ req[r].status = 404
        /\ req[r].calls = <<>>
        /\ \E row \in dbConvs : row.id = req[r].arg /\ row.is_deleted
        /\ WfRowsOf(req[r].arg) # {}

\* The version stored for a conversation, 0 when it has no workflow.
StoredVersion(c) ==
    IF WfRowsOf(c) = {} THEN 0 ELSE wf_select(dbWfs, c).version

Acknowledgements ==
    {"Generated workflow successfully", "Updated workflow successfully"}

\* The positions of a conversation's messages that acknowledge a workflow.
AckPositions(ms) ==
    {i \in 1..Len(ms) :
        ms[i].role = "assistant" /\ ms[i].content \in Acknowledgements}

\* No handler is between its first line and its response.
Quiescent == \A r \in Reqs : req[r].pc \in {"idle", "done"}

\* C19: a create or edit that succeeds with a workflow has stored a user
\* message and then the fixed acknowledgement when it stores the workflow,
\* and that store advances the version by 1 (to 1 when there was none).
\* Between requests a conversation so holds at least one acknowledgement,
\* each behind a user message, per version; when every request on it was a
\* create or edit that stored its workflow (no clarification among its
\* messages, no acknowledgement whose write then failed), one create and k
\* edits leave 2(k+1) messages and version k+1.
C19_TwoMessagesPerVersion ==
    /\ [](Quiescent =>
            \A c \in ConvIds :
                LET ms == SavedMessages(c) IN
                /\ Cardinality(AckPositions(ms)) >= StoredVersion(c)
                /\ StoredVersion(c) = Len(hSaves[c])
                /\ \A i \in AckPositions(ms) : i > 1 /\ ms[i - 1].role = "user"
                /\ Cardinality(WfRowsOf(c)) <= 1
                /\ ((\A i \in 1..Len(ms) :
                         ms[i].role = "assistant" => i \in AckPositions(ms))
                    /\ Cardinality(AckPositions(ms)) = Len(hSaves[c])) =>
                       Len(ms) = 2 * StoredVersion(c))
    /\ [][\A r \in Reqs :
            (req[r].pc = "workflow_commit" /\ req'[r].status = 200) =>
                LET c == req[r].conv
                    n == Len(dbMsgs)
                IN /\ req[r].saved_messages = 2
                   /\ dbMsgs' = dbMsgs
                   /\ n >= 2
                   /\ dbMsgs[n - 1].conversation_id = c
                   /\ dbMsgs[n - 1].role = "user"
                   /\ dbMsgs[n].conversation_id = c
                   /\ dbMsgs[n].role = "assistant"
                   /\ dbMsgs[n].content =
                         IF req[r].kind = "create"
                         THEN "Generated workflow successfully"
                         ELSE "Updated workflow successfully"
                   /\ StoredVersion(c)' = StoredVersion(c) + 1
                   /\ wf_select(dbWfs, c)'.workflow_json = req[r].doc]_vars

\* One create and two edits: six messages, version 3.
C19_Witness ==
    /\ Quiescent
    /\ \E c \in ConvIds :
        /\ Len(SavedMessages(c)) = 6
        /\ StoredVersion(c) = 3
        /\ SavedMessages(c)[2].content = "Generated workflow successfully"
        /\ SavedMessages(c)[4].content = "Updated workflow successfully"
        /\ SavedMessages(c)[6].content = "Updated workflow successfully"

(***************************************************************************)
(* ConversationService: conversations do not see each other.               *)
(***************************************************************************)
\* The call just made was a save_message that stored a row for c.
MessageSavedTo(c) ==
    /\ hOps' = hOps + 1
    /\ svcLast' = Call("save_message", c, "message")

\* C21: the history and the message count of a conversation hold the
\* messages saved to it and no others: a save_message to c adds its row at
\* the end of c's history, raises c's count by one and leaves the history
\* and count of every other conversation as they were; the current workflow
\* of a conversation is the document last saved to it.
C21_ConversationsIsolated ==
    /\ [](\A c \in ConvIds :
            /\ \A n \in LastNs :
                 LET h == get_conversation_history(dbConvs, dbMsgs, c, n) IN
                 /\ \A i \in 1..Len(h.messages) :
                        h.messages[i].conversation_id = c
                 /\ h.found => h.total_messages = Len(SavedMessages(c))
            /\ hSaveCount[c] > 0 =>
                   get_current_workflow(dbWfs, c) = hLastSaved[c]
            /\ hSaveCount[c] = 0 => WfRowsOf(c) = {})
    /\ [][\A c \in ConvIds :
            MessageSavedTo(c) =>
                /\ \A d \in ConvIds \ {c} : \A n \in LastNs :
                       get_conversation_history(dbConvs, dbMsgs, d, n)' =
                           get_conversation_history(dbConvs, dbMsgs, d, n)
                /\ LET before == get_conversation_history(dbConvs, dbMsgs, c, MaxOps)
                       after == get_conversation_history(dbConvs, dbMsgs, c, MaxOps)'
                   IN /\ after.total_messages = before.total_messages + 1
                      /\ after.messages =
                            Append(before.messages, dbMsgs'[Len(dbMsgs')])
                      /\ dbMsgs'[Len(dbMsgs')].conversation_id = c]_vars

\* Two conversations with one message each: each history holds its own.
C21_Witness ==
    /\ \A c \in ConvIds :
         LET h == get_conversation_history(dbConvs, dbMsgs, c, 5) IN
         /\ h.found
         /\ h.total_messages = 1
         /\ Len(h.messages) = 1
         /\ h.messages[1].conversation_id = c
    /\ Len(dbMsgs) = 2

(***************************************************************************)
(* ConversationService: the summarization trigger.                         *)
(***************************************************************************)
\* C22: _check_summarization_needed is true only with more than 10 messages
\* in the conversation and either no update_summary so far or at least 5
\* messages saved since the last one: true with 11 messages and no summary,
\* false up to 10 messages, false from update_summary until 5 more messages
\* are saved and true from then on.
C22_SummarizationTrigger ==
    \A c \in ConvIds :
        LET total == Len(SavedMessages(c))
            needed == _check_summarization_needed(dbConvs, dbMsgs, c)
        IN /\ needed = "True" =>
                  /\ total > 10
                  /\ ~hSince[c].summarized \/ hSince[c].since >= 5
           /\ (total = 11 /\ ~hSince[c].summarized) => needed = "True"
           /\ total <= 10 => needed = "False"
           /\ (hSince[c].summarized /\ hSince[c].since < 5) => needed = "False"
           /\ (hSince[c].summarized /\ hSince[c].since >= 5 /\ total > 10) =>
                  needed = "True"

\* Eleven messages, a summary, and the fifth message after it.
C22_Witness ==
    /\ hSince["c1"] = [summarized |-> TRUE, since |-> 5]
    /\ Len(SavedMessages("c1")) = 16
    /\ _check_summarization_needed(dbConvs, dbMsgs, "c1") = "True"
    /\ svcLast.op = "save_message"

(***************************************************************************)
(* config.py.                                                              *)
(***************************************************************************)
\* C23: a load_settings or get_settings call returns a settings object only
\* if the AWS access key, the AWS secret key and the embedding key are each
\* non-empty and not the placeholder your_<field>_here; a call made after a
\* load that failed raises again.
C23_NoSettingsWithoutSecrets ==
    cfgLast.outcome = "returned" =>
        \A f \in critical_fields :
            /\ cfgLast.value[f] # ""
            /\ cfgLast.value[f] # Placeholder[f]

(***************************************************************************)
(* GET /health.                                                            *)
(***************************************************************************)
\* No dependency answered: the index and the database are unavailable and
\* the embedding key is not configured.
AllDown(services) ==
    /\ services.qdrant = "unavailable"
    /\ services.database = "unavailable"
    /\ services.embedding = "not_configured"

AllUp(services) ==
    /\ services.qdrant = "healthy"
    /\ services.database = "healthy"
    /\ services.embedding = "configured"

\* C24: the health endpoint answers 200 whatever the probes did; its status
\* is healthy when every dependency is healthy or configured, unhealthy when
\* every dependency is unavailable, and degraded otherwise.
C24_OverallStatus ==
    hcPc = "done" =>
        /\ hcResponse.http = 200
        /\ hcResponse.status =
              IF AllUp(hcResponse.services) THEN "healthy"
              ELSE IF AllDown(hcResponse.services) THEN "unhealthy"
              ELSE "degraded"

(***************************************************************************)
(* utils/validators.py.                                                    *)
(***************************************************************************)
\* The invariants of a workflow document: WellFormedWorkflow, every node
\* with a type, and every type of the form tool.operation.
SatisfiesDataModel(doc) ==
    /\ WellFormedWorkflow(doc)
    /\ \A i \in 1..Len(doc.nodes) :
          doc.nodes[i].has_type /\ has_dot(doc.nodes[i].type)

\* C25: validate_workflow_structure returns (True, None) for every document
\* that satisfies the data model, whether a successor is an id, an object
\* whose `next` is an id or an object whose `next` is a list of ids, and
\* returns invalid with a message naming 'connections' when that key is
\* missing.
C25_StructureValidatorAcceptsModel ==
    vResult # NotCalled =>
        /\ SatisfiesDataModel(vWorkflow) => vResult = Valid
        /\ (vWorkflow.has_nodes /\ ~vWorkflow.has_connections) =>
               vResult = Invalid("Missing 'connections' object")

(***************************************************************************)
(* generate_batch_embeddings: what the trace of calls and sleeps shows.    *)
(***************************************************************************)
\* The number of the attempt that event i of the trace is, within its chunk.
AttemptNo(tr, i) ==
    Cardinality({j \in 1..i : tr[j].ev = "call" /\ tr[j].first = tr[i].first})

\* The response to call e raised, or its count differs from the chunk's.
ChunkCallFailed(e) ==
    \/ e.kind = "raised"
    \/ Len(BatchResponse(e.kind, e.first, e.n).embeddings) # e.n

EmptyOrTooLong(t) == t.len = 0 \/ t.blank \/ t.len > 8000

ValidNonEmpty(texts) ==
    /\ Len(texts) > 0
    /\ \A j \in 1..Len(texts) : ~EmptyOrTooLong(texts[j])

\* C26: on a valid non-empty list the provider is called for consecutive
\* chunks of at most 128 texts, starting at offset 0; each chunk gets at most
\* 3 calls, a failed call (an exception, or a count other than the chunk's)
\* being followed by a sleep of 1s after the first and 2s after the second
\* and then by a call for the same chunk, while the third failure ends the
\* call with a VoyageAIException and no result; a successful call is
\* followed by the first call for the next chunk, or by the return of the
\* vectors of all texts in input order, as many as there are texts.
C26_BatchChunksAndRetries ==
    (bPc \in {"loop", "returned", "raised"} /\ ValidNonEmpty(bTexts)) =>
        LET tr == bTrace
            N == Len(bTexts)
        IN
        /\ \A i \in 1..Len(tr) :
              IF tr[i].ev = "call"
              THEN /\ tr[i].first % 128 = 0
                   /\ tr[i].first < N
                   /\ tr[i].n = (IF N - tr[i].first < 128 THEN N - tr[i].first ELSE 128)
                   /\ (i = 1 => tr[i].first = 0)
                   /\ AttemptNo(tr, i) <= 3
                   /\ (i > 1 /\ AttemptNo(tr, i) = 1 =>
                          /\ tr[i - 1].ev = "call"
                          /\ ~ChunkCallFailed(tr[i - 1])
                          /\ tr[i].first = tr[i - 1].first + 128)
                   /\ IF ChunkCallFailed(tr[i])
                      THEN IF AttemptNo(tr, i) < 3
                           THEN /\ i + 1 <= Len(tr)
                                /\ tr[i + 1].ev = "sleep"
                                /\ tr[i + 1].secs = AttemptNo(tr, i)
                                /\ (i + 2 <= Len(tr) =>
                                       /\ tr[i + 2].ev = "call"
                                       /\ tr[i + 2].first = tr[i].first)
                           ELSE /\ i = Len(tr)
                                /\ bPc = "raised"
                      ELSE /\ (i < Len(tr) =>
                                 /\ tr[i + 1].ev = "call"
                                 /\ tr[i + 1].first = tr[i].first + 128)
                           /\ (i = Len(tr) =>
                                 bPc = (IF tr[i].first + tr[i].n = N
                                        THEN "returned" ELSE "loop"))
              ELSE /\ i > 1
                   /\ tr[i - 1].ev = "call"
                   /\ ChunkCallFailed(tr[i - 1])
        /\ (bPc = "returned" =>
              /\ Len(bResult) = N
              /\ bResult = [j \in 1..N |-> j])
        /\ (bPc = "raised" =>
              /\ bResult = NoBatchResult
              /\ bError.type = "VoyageAIException"
              /\ bError.attempts = 3
              /\ Len(tr) > 0
              /\ ChunkCallFailed(tr[Len(tr)])
              /\ AttemptNo(tr, Len(tr)) = 3)
        /\ (bPc = "loop" => bResult = NoBatchResult)

\* A list of three chunks was embedded although a response of the second
\* chunk had a vector missing and one of the third raised.
C26_Witness ==
    /\ bPc = "returned"
    /\ Len(bTexts) = 257
    /\ \E i \in 1..Len(bTrace) :
          bTrace[i].ev = "call" /\ bTrace[i].kind = "short" /\ bTrace[i].first = 128
    /\ \E i \in 1..Len(bTrace) :
          bTrace[i].ev = "call" /\ bTrace[i].kind = "raised" /\ bTrace[i].first = 256

\* C27: generate_embedding on an empty, whitespace-only or too long text,
\* and generate_batch_embeddings on an empty list or a list holding such a
\* text, raise ValueError without any provider call or sleep and return
\* nothing; for a list the error names the index of the first such text.
C27_InvalidInputImmediate ==
    /\ (ePc \notin {"idle", "start"} /\ EmptyOrTooLong(eText)) =>
          /\ ePc = "raised"
          /\ eError.type = "ValueError"
          /\ eTrace = <<>>
          /\ eResult = NoVector
    /\ (bPc \notin {"idle", "start"} /\ ~ValidNonEmpty(bTexts)) =>
          /\ bPc = "raised"
          /\ bError.type = "ValueError"
          /\ bTrace = <<>>
          /\ bResult = NoBatchResult
          /\ (Len(bTexts) > 0 =>
                /\ EmptyOrTooLong(bTexts[bError.index + 1])
                /\ \A j \in 1..bError.index : ~EmptyOrTooLong(bTexts[j]))

\* A list whose second and last texts are invalid was rejected at index 1.
C27_Witness ==
    /\ bPc = "raised"
    /\ Len(bTexts) = 129
    /\ bError.index = 1
    /\ EmptyOrTooLong(bTexts[129])
    /\ bTexts[2].len > 8000
    /\ bTrace = <<>>

(***************************************************************************)
(* generate_workflow: failures other than a JSON-parse failure.            *)
(***************************************************************************)
\* _call_bedrock raised for a ClientError with code ThrottlingException.
ThrottlingCondition(out) ==
    out.raised /\ out.error.template = "Rate limit exceeded"

\* C28: an invocation that fails otherwise than by a JSON-parse failure (a
\* provider error, or a parsed reply that fails _validate_workflow) is the
\* last one, the call raising "Workflow generation failed" right after it,
\* unless the failure is a throttling condition; at most 3 invocations are
\* made in any case.
C28_NonParseFailureAborts ==
    /\ Len(gCalls) <= 3
    /\ \A i \in 1..Len(gCalls) :
          (attempt_result(gCalls[i].out) = "other"
              /\ ~ThrottlingCondition(gCalls[i].out)) =>
                /\ i = Len(gCalls)
                /\ gPc = "raised"
                /\ gError.template = "Workflow generation failed"

(***************************************************************************)
(* The stages of one create request.                                       *)
(***************************************************************************)
CreateStages == <<"generate_embedding", "search_tools", "generate_workflow">>

Invoked(q, service) == \E i \in 1..Len(q.calls) : q.calls[i] = service

\* The create request q ended in its embed, search or generate stage.
StageFailed(q) ==
    /\ q.kind = "create"
    /\ q.pc = "done"
    /\ \/ q.body.text \in {"Embedding service unavailable",
                           "Search service unavailable",
                           "Workflow generator unavailable"}
       \/ q.error # NoGenError

C30_EditSingleInvocation ==
    \A r \in ApiReqs :
        LET q == req[r] IN
        q.kind = "edit" =>
            /\ ~q.classified
            /\ q.outcome \notin {"no_match", "ambiguous"}
            /\ q.body.status \notin {"no_match", "ambiguous"}
            /\ (Invoked(q, "generate_workflow_edit") =>
                  /\ q.invocations = 1
                  /\ q.calls = <<"generate_embedding", "search_tools",
                                 "generate_workflow_edit">>
                  /\ q.results = q.found
                  /\ \/ q.error = NoGenError /\ _validate_workflow(q.doc) = "ok"
                     \/ /\ q.error.type = "BedrockException"
                        /\ q.error.template = "Workflow edit failed"
                        /\ q.error.cause \in {"Rate limit exceeded",
                                              "Bedrock call failed",
                                              "JSONDecodeError", "ValueError"}
                        /\ q.pc = "done"
                        /\ q.status \in {HTTP_429_TOO_MANY_REQUESTS,
                                         HTTP_503_SERVICE_UNAVAILABLE}
                        /\ q.saved_messages = 0
                        /\ ~q.saved_workflow)
            /\ (~Invoked(q, "generate_workflow_edit") => q.invocations = 0)

\* An edit whose search found only a low-scoring tool reached the generator,
\* whose single unparsable reply ended the request.
C30_Witness ==
    \E r \in ApiReqs :
        /\ req[r].kind = "edit"
        /\ req[r].pc = "done"
        /\ req[r].error.cause = "JSONDecodeError"
        /\ req[r].invocations = 1
        /\ Len(req[r].found) = 1
        /\ req[r].found[1].score < similarity_threshold_low
        /\ req[r].status = HTTP_503_SERVICE_UNAVAILABLE

(***************************************************************************)
(* detect_workflow_cycles.                                                 *)
(***************************************************************************)
SingleValued(doc) ==
    /\ doc.has_connections /\ doc.connections_is_dict
    /\ \A k \in DOMAIN doc.connections : doc.connections[k].kind \in {"id", "next"}

\* p starts at k, follows the successors given by connections through
\* distinct nodes, and ends on a node it has already visited.
WalkRevisits(connections, k, p) ==
    /\ Len(p) >= 2
    /\ p[1] = k
    /\ \A i \in 1..(Len(p) - 1) :
          /\ p[i] \in DOMAIN connections
          /\ connections[p[i]].targets = <<p[i + 1]>>
          /\ \A j \in 1..(i - 1) : p[j] # p[i]
    /\ \E j \in 1..(Len(p) - 1) : p[j] = p[Len(p)]

Walks == UNION {[1..n -> CycleNodeIds] : n \in 2..4}

\* The part of p from the first occurrence of its last node.
RepeatedPart(p) ==
    LET j == CHOOSE j \in 1..(Len(p) - 1) : p[j] = p[Len(p)]
    IN SubSeq(p, j, Len(p))

\* C31: on a workflow whose descriptors are single-valued the detector
\* returns; has_cycles is true exactly when following successors from some
\* key of connections revisits a node; and the cycles are, for each such key
\* and no other, the part of the walk from the first repeated node back to
\* itself.
C31_CyclesOfSingleValued ==
    (cyResult # CyclesNotCalled /\ SingleValued(cyWorkflow)) =>
        LET connections == cyWorkflow.connections
            Revisiting == {k \in DOMAIN connections :
                              \E p \in Walks : WalkRevisits(connections, k, p)}
        IN
        /\ cyResult.raised = "no"
        /\ cyResult.has_cycles = (Revisiting # {})
        /\ {c.start : c \in cyResult.cycles} = Revisiting
        /\ Cardinality(cyResult.cycles) = Cardinality(Revisiting)
        /\ \A c \in cyResult.cycles :
              \E p \in Walks :
                  /\ WalkRevisits(connections, c.start, p)
                  /\ c.cycle = RepeatedPart(p)

\* From node1 the walk enters the cycle node2 -> node3 -> node2, which is
\* reported for each of the three keys.
C31_Witness ==
    /\ cyResult.raised = "no"
    /\ SingleValued(cyWorkflow)
    /\ [start |-> "node1", cycle |-> <<"node2", "node3", "node2">>] \in cyResult.cycles
    /\ Cardinality(cyResult.cycles) = 3

\* C32: on a workflow with a list-valued `next` the detector returns
\* without raising, and reports no cycle that passes through a list-valued
\* descriptor.
C32_ListBranchesSkipped ==
    (/\ cyResult # CyclesNotCalled
     /\ cyWorkflow.has_connections /\ cyWorkflow.connections_is_dict
     /\ \E k \in DOMAIN cyWorkflow.connections :
           cyWorkflow.connections[k].kind = "nextlist") =>
        /\ cyResult.raised = "no"
        /\ \A c \in cyResult.cycles :
              \A i \in 1..Len(c.cycle) :
                  c.cycle[i] \in DOMAIN cyWorkflow.connections =>
                      cyWorkflow.connections[c.cycle[i]].kind # "nextlist"

(***************************************************************************)
(* get_db.                                                                 *)
(***************************************************************************)
ClosedOnce(u) ==
    /\ u.trace[Len(u.trace)] = "close"
    /\ Cardinality({i \in 1..Len(u.trace) : u.trace[i] = "close"}) = 1

Committed(u) ==
    u.block = "normal" /\ u.trace = <<"commit", "close">> /\ u.raised = "none"

\* C33 as stated: a use ends with the block left normally and the session
\* committed, or with the block having raised, the session rolled back and
\* the error re-raised; either way the session is closed exactly once, after
\* everything else.
C33_CommitOrRollback ==
    /\ \A i \in 1..Len(gdLedger) :
          LET u == gdLedger[i] IN
          /\ ClosedOnce(u)
          /\ \/ Committed(u)
             \/ /\ u.block # "normal"
                /\ u.trace = <<"rollback", "close">>
                /\ u.raised = u.block
    /\ (gdPc = "done" => gdSession = "closed")

\* C33, amended: a use ends committed (block left normally, commit
\* returned, nothing raised); or rolled back with the error raised, when the
\* block raised an Exception or commit raised; or, when the block raised an
\* exception that is not an Exception, neither committed nor rolled back,
\* that exception propagating; in every case the session is closed exactly
\* once, as the last call.
C33_CommitRollbackOrCloseOnly ==
    /\ \A i \in 1..Len(gdLedger) :
          LET u == gdLedger[i] IN
          /\ ClosedOnce(u)
          /\ \/ Committed(u)
             \/ /\ u.block = "Exception"
                /\ u.trace = <<"rollback", "close">>
                /\ u.raised = "Exception"
             \/ /\ u.block = "normal"
                /\ u.trace = <<"commit failed", "rollback", "close">>
                /\ u.raised = "Exception"
             \/ /\ u.block = "BaseException"
                /\ u.trace = <<"close">>
                /\ u.raised = "BaseException"
    /\ (gdPc = "done" => gdSession = "closed")
    /\ (gdPc \in {"block", "commit", "rollback", "close"} => gdSession = "open")

\* Three uses: one committed, one whose commit raised, one whose block
\* raised an Exception.
C33_Witness ==
    /\ Len(gdLedger) = 3
    /\ Committed(gdLedger[1])
    /\ gdLedger[2].trace = <<"commit failed", "rollback", "close">>
    /\ gdLedger[3].block = "Exception"
    /\ gdLedger[3].trace = <<"rollback", "close">>

(***************************************************************************)
(* ConversationService: the two halves of a conversation, and the life of  *)
(* a message.                                                              *)
(***************************************************************************)
RoleContentPairs(xs) ==
    [i \in 1..Len(xs) |-> [role |-> xs[i].role, content |-> xs[i].content]]

\* C34: get_messages_for_summarization(id, n) returns the oldest
\* max(0, total - n) messages of the conversation, oldest first, as
\* role/content pairs; on an existing conversation these followed by the
\* messages of get_conversation_history(id, last_n = n) are the whole
\* message sequence, each message once.
C34_SummarizedThenRecent ==
    \A c \in ConvIds, n \in LastNs :
        LET s == get_messages_for_summarization(dbMsgs, c, n)
            h == get_conversation_history(dbConvs, dbMsgs, c, n)
            all == SavedMessages(c)
            T == Len(all)
        IN /\ Len(s) = (IF T - n > 0 THEN T - n ELSE 0)
           /\ s = RoleContentPairs(SubSeq(all, 1, Len(s)))
           /\ h.found =>
                 /\ Len(s) + Len(h.messages) = T
                 /\ s \o RoleContentPairs(h.messages) = RoleContentPairs(all)
                 /\ h.messages = SubSeq(all, Len(s) + 1, T)

\* A conversation with four messages of alternating roles, split after the
\* second message for n = 2.
C34_Witness ==
    \E c \in ConvIds :
        /\ Len(SavedMessages(c)) = 4
        /\ SavedMessages(c)[1].role = "user"
        /\ SavedMessages(c)[2].role = "assistant"
        /\ SavedMessages(c)[3].role = "user"
        /\ Len(get_messages_for_summarization(dbMsgs, c, 2)) = 2
        /\ get_conversation_history(dbConvs, dbMsgs, c, 2).found

\* C35: every call of the service leaves the stored messages as they were
\* or appends one message to them, so a conversation's messages only grow
\* at the end and their number never goes down.
C35_MessagesImmutable ==
    [][/\ \/ dbMsgs' = dbMsgs
          \/ /\ Len(dbMsgs') = Len(dbMsgs) + 1
             /\ SubSeq(dbMsgs', 1, Len(dbMsgs)) = dbMsgs
       /\ \A c \in ConvIds :
             /\ IsPrefix(SavedMessages(c), SavedMessages(c)')
             /\ Cardinality(message_rows(dbMsgs', c))
                   >= Cardinality(message_rows(dbMsgs, c))]_vars

\* A conversation that has two messages, a summary and was then deleted
\* still holds both messages.
C35_Witness ==
    \E c \in hDeleted :
        /\ Len(SavedMessages(c)) = 2
        /\ \E row \in dbConvs : row.id = c /\ row.summary = "summary"

(***************************************************************************)
(* The conversation a create request without conversation_id opens.        *)
(***************************************************************************)
ConvIdsOf(convs) == {row.id : row \in convs}

\* C38: a create request without conversation_id creates and commits
\* exactly one new conversation, before the embedding stage and in no other
\* step; when the request then fails in its embed, search or generate stage
\* (503 or 429), that conversation remains, with no message and no
\* workflow, and its id is not in the response.
C38_FailedCreateLeavesEmptyConversation ==
    /\ [](\A r \in ApiReqs :
            LET q == req[r] IN
            StageFailed(q) /\ q.arg = "none" =>
                /\ q.created_conversation
                /\ q.status \in {HTTP_503_SERVICE_UNAVAILABLE,
                                 HTTP_429_TOO_MANY_REQUESTS,
                                 HTTP_500_INTERNAL_SERVER_ERROR}
                /\ Cardinality({row \in dbConvs : row.id = q.conv}) = 1
                /\ ~ConvRowOf(dbConvs, q.conv).is_deleted
                /\ message_rows(dbMsgs, q.conv) = {}
                /\ WfRowsOf(q.conv) = {}
                /\ q.body.shape = "detail"
                /\ q.body.conversation_id # q.conv)
    /\ [][\A r \in ApiReqs :
            req[r].kind = "create" /\ req'[r].kind = "create" =>
                IF req[r].pc = "resolve" /\ req[r].arg = "none"
                THEN /\ req[r].calls = <<>>
                     /\ req'[r].calls = <<>>
                     /\ req'[r].pc = "embed"
                     /\ dbConvs \subseteq dbConvs'
                     /\ ConvIdsOf(dbConvs') \ ConvIdsOf(dbConvs) = {req'[r].conv}
                     /\ Cardinality(dbConvs') = Cardinality(dbConvs) + 1
                     /\ dbMsgs' = dbMsgs /\ dbWfs' = dbWfs
                ELSE ConvIdsOf(dbConvs') = ConvIdsOf(dbConvs)]_vars

\* A create request that opened a conversation was refused by the model's
\* rate limit.
C38_Witness ==
    \E r \in ApiReqs :
        /\ StageFailed(req[r])
        /\ req[r].created_conversation
        /\ req[r].status = HTTP_429_TOO_MANY_REQUESTS
        /\ req[r].calls = CreateStages
        /\ \E row \in dbConvs : row.id = req[r].conv

(***************************************************************************)
(* The persist step: three commits.                                        *)
(***************************************************************************)
\* The conversation of q holds a user message and, behind it, the
\* acknowledgement a request of q's kind writes.
BothMessagesStored(msgs, q) ==
    \E i, j \in 1..Len(msgs) :
        /\ i < j
        /\ msgs[i].conversation_id = q.conv /\ msgs[i].role = "user"
        /\ msgs[j].conversation_id = q.conv /\ msgs[j].role = "assistant"
        /\ msgs[j].content = IF q.kind = "create"
                             THEN "Generated workflow successfully"
                             ELSE "Updated workflow successfully"

\* The workflow write of q raised after its two messages were committed.
WorkflowWriteFailed(q) ==
    /\ PersistFailed(q)
    /\ q.outcome = "confident"
    /\ q.saved_messages = 2

\* C39: the persist step of a create or edit that generated a workflow is
\* three commits, the user message, then the assistant message, then the
\* workflow; when the workflow write fails after the two messages, the
\* answer is 500, both messages stay in the conversation and the stored
\* workflow rows (document and version) are as they were.
C39_MessagesOutliveFailedWorkflowWrite ==
    /\ [](\A r \in Reqs :
            /\ (req[r].kind \in {"create", "edit"} /\ req[r].saved_workflow =>
                    req[r].saved_messages = 2)
            /\ (WorkflowWriteFailed(req[r]) =>
                    /\ req[r].status = HTTP_500_INTERNAL_SERVER_ERROR
                    /\ ~req[r].saved_workflow
                    /\ BothMessagesStored(dbMsgs, req[r])))
    /\ [][\A r \in Reqs :
            LET q == req[r] IN
            (q.kind \in {"create", "edit"} /\ q.outcome = "confident"
             /\ q.pc # "done" /\ req'[r] # q) =>
                /\ req'[r].saved_messages > q.saved_messages =>
                       /\ q.pc = IF q.saved_messages = 0
                                 THEN "user_message" ELSE "assistant_message"
                       /\ Len(dbMsgs') = Len(dbMsgs) + 1
                       /\ SubSeq(dbMsgs', 1, Len(dbMsgs)) = dbMsgs
                       /\ dbMsgs'[Len(dbMsgs')].conversation_id = q.conv
                       /\ dbMsgs'[Len(dbMsgs')].role =
                              IF q.saved_messages = 0 THEN "user" ELSE "assistant"
                       /\ dbWfs' = dbWfs
                /\ req'[r].saved_workflow =>
                       /\ q.pc = "workflow_commit"
                       /\ dbMsgs' = dbMsgs
                       /\ dbWfs' # dbWfs
                /\ WorkflowWriteFailed(req'[r]) =>
                       /\ q.pc = "workflow_commit"
                       /\ dbMsgs' = dbMsgs
                       /\ dbWfs' = dbWfs
                       /\ StoredVersion(q.conv)' = StoredVersion(q.conv)
                       /\ get_current_workflow(dbWfs, q.conv)' =
                              get_current_workflow(dbWfs, q.conv)]_vars

\* An edit whose workflow write was refused: its two messages are stored
\* and the workflow is at the version the edit found.
C39_Witness ==
    \E r \in Reqs :
        /\ WorkflowWriteFailed(req[r])
        /\ req[r].kind = "edit"
        /\ BothMessagesStored(dbMsgs, req[r])
        /\ StoredVersion(req[r].conv) = req[r].base
        /\ req[r].base >= 1

(***************************************************************************)
(* The two validators compared.                                            *)
(***************************************************************************)
\* Accepted by ClaudeService._validate_workflow, refused by
\* validate_workflow_structure with this message.
AcceptedAtGenerationOnly(doc, msg) ==
    /\ _validate_workflow(doc) = "ok"
    /\ validate_workflow_structure(doc) = Invalid(msg)

\* C40: every document validate_workflow_structure finds valid is accepted
\* by ClaudeService._validate_workflow; the converse fails: a node type
\* without '.' and a `next` naming no node are accepted by
\* _validate_workflow and refused by validate_workflow_structure.
C40_GenerationValidatorMorePermissive ==
    /\ vResult = Valid => _validate_workflow(vWorkflow) = "ok"
    /\ \E doc \in ValidatorDocs :
          AcceptedAtGenerationOnly(doc, "Node has invalid type format")
    /\ \E doc \in ValidatorDocs :
          AcceptedAtGenerationOnly(doc, "Connection references unknown target node")

\* A document with a connection that both validators accept.
C40_Witness ==
    /\ vResult = Valid
    /\ _validate_workflow(vWorkflow) = "ok"
    /\ DOMAIN vWorkflow.connections # {}
    /\ Len(vWorkflow.nodes) = 2

(***************************************************************************)
(* GET /health: the statuses that can be reported.                         *)
(***************************************************************************)
\* C37: the health endpoint never reports unhealthy: whatever the probes
\* did, the reported status is healthy or degraded, and the embedding entry
\* is configured or not_configured, never unavailable.
C37_NeverUnhealthy ==
    hcPc = "done" =>
        /\ hcResponse.status \in {"healthy", "degraded"}
        /\ hcResponse.services.embedding \in {"configured", "not_configured"}

\* Neither probe answered and no embedding key is configured.
C37_Witness ==
    /\ hcPc = "done"
    /\ AllDown(hcResponse.services)
    /\ hcResponse.status = "degraded"

(***************************************************************************)
(* The ingestion pipeline.                                                 *)
(***************************************************************************)
BuiltOps(tools) ==
    {i \in 1..total_operations(tools) : Operations(tools)[i].builds}

BatchesHolding(i) ==
    {b \in 1..Len(igBatches) :
        \E j \in 1..Len(igBatches[b].texts) : igBatches[b].texts[j] = i}

\* C36: when process_tools has run, processed_count + failed_count is the
\* number of operations of the catalog; every operation whose chunk was
\* built is in exactly one batch, no batch holding more than 10; and
\* processed_count is the number of points in the index.
C36_EveryOperationCounted ==
    igPc = "done" =>
        /\ processed_count + failed_count = total_operations(igCatalog)
        /\ \A i \in BuiltOps(igCatalog) : Cardinality(BatchesHolding(i)) = 1
        /\ \A b \in 1..Len(igBatches) :
              Len(igBatches[b].texts) \in 1..10
        /\ processed_count = igPoints

=============================================================================
